---- MODULE Spec2Model ----
(***************************************************************************)
(* Ironbank ledger store (store/shopStore), the ledger manager's save /    *)
(* open / import-merge handlers (components/LedgerManager), the home       *)
(* page's open / create handlers (components/HomePage) and the unsaved-    *)
(* changes dialog of the application shell (App).                          *)
(***************************************************************************)
EXTENDS Integers, Sequences, FiniteSets, TLC

(***************************************************************************)
(* Bounds of the model.                                                    *)
(***************************************************************************)
\* total number of records, over the four collections, of a store drawn
\* initially, and the size up to which the pages add records
MaxStore == 2
\* total number of records, over the four collections, of an imported file
MaxIncoming == 2
\* last reading of the clock
MaxClock == 2
\* number of saveLedger calls awaited at a time
MaxInFlight == 1
\* total number of trades up to which the pages add trades
MaxTrades == 1

(***************************************************************************)
(* Values.                                                                 *)
(***************************************************************************)
\* JavaScript null for string | null fields (selectedShopId, ledgerPath)
Null == "<null>"

\* time value of an Invalid Date (NaN)
InvalidDate == 0 - 1

ShopIds == {"a", "b"}
GroupIds == {"a"}
CustomItemIds == {"custom_a"}
Igns == {"Steve", "steve", "Alex"}

\* String.prototype.toLowerCase on the names of the model
ToLowerCase(s) ==
  CASE s = "Steve" -> "steve"
    [] s = "STEVE" -> "steve"
    [] s = "steve" -> "steve"
    [] s = "Alex" -> "alex"
    [] s = "ALEX" -> "alex"
    [] s = "alex" -> "alex"
    [] OTHER -> s

\* a JSON date field: an ISO-8601 string of instant t, null, or no field at all
IsoString(t) == [k |-> "iso", t |-> t]
JsonNull == [k |-> "null", t |-> 0]
JsonAbsent == [k |-> "absent", t |-> 0]

\* new Date(x): an ISO string gives its instant, null the epoch, undefined NaN
NewDate(j) ==
  CASE j.k = "iso" -> j.t
    [] j.k = "null" -> 0
    [] OTHER -> InvalidDate

\* Array.prototype.map
MapSeq(s, F(_)) == [i \in 1..Len(s) |-> F(s[i])]

\* an optional array field of the file: <<>> when absent, <<array>> when present
OrEmpty(opt) == IF Len(opt) = 0 THEN <<>> ELSE opt[1]

\* entity records of the store
Shop(id, name, trades, createdAt, updatedAt) ==
  [id |-> id, name |-> name, trades |-> trades,
   createdAt |-> createdAt, updatedAt |-> updatedAt]
Trade(id, item, lastUpdated) == [id |-> id, item |-> item, lastUpdated |-> lastUpdated]
Player(ign, notes) == [ign |-> ign, notes |-> notes]
Group(id, name) == [id |-> id, name |-> name]
CustomItem(id, name, createdAt) == [id |-> id, name |-> name, createdAt |-> createdAt]

(***************************************************************************)
(* State.                                                                  *)
(***************************************************************************)
VARIABLES
  \* useShopStore
  shops, players, groups, customItems,
  selectedShopId, ledgerName, ledgerPath, hasUnsavedChanges,
  \* LedgerManager component state
  showImportDialog, mergePreview, importError,
  \* HomePage component state: the error banner
  homeError,
  \* AppContent component state: the unsaved-changes dialog, and the pending
  \* 500 ms timer of Save & Exit with the pendingNavigation it captured
  showUnsavedDialog, pendingNavigation, saveExitTimer,
  \* useTutorialStore: isActive
  isTutorialActive,
  \* the saveLedger calls awaited by handleSave
  saveInFlight,
  \* the build (isTauri()) and the route shown
  isTauri, location,
  \* the clock read by new Date()
  now,
  \* history: the last handler run, the store before it, the preview it
  \* committed, the file it read and the alert() it raised
  lastOp, pre, prevPreview, lastFile, alertMessage,
  \* history: the key the last store operation was called with
  lastKey,
  \* history of the ledger's file, kept in the runs that audit it: the
  \* collections last written to or read from it, the collections each save
  \* in flight is writing, and the outcome of the save requested by the last
  \* Save & Exit
  audit, synced, flightContent, exitSave,
  \* the tutorial store besides isActive, and history: the tutorial store
  \* before the last handler
  currentStepId, completedSteps, phase, preTutorial,
  \* history: the number of nextStep calls made since startTutorial with no
  \* other call of the tutorial store between them, NoRun otherwise
  run,
  \* GroupForm: the members and the leader being edited, none when closed
  groupForm

storeVars == <<shops, players, groups, customItems,
               selectedShopId, ledgerName, ledgerPath, hasUnsavedChanges>>
managerVars == <<showImportDialog, mergePreview, importError>>
shellVars == <<showUnsavedDialog, pendingNavigation, saveExitTimer>>
auditVars == <<audit, synced, flightContent, exitSave>>
histVars == <<lastOp, pre, prevPreview, lastFile, alertMessage, lastKey, auditVars,
              preTutorial, run>>
tutorialVars == <<currentStepId, completedSteps, phase>>
vars == <<storeVars, managerVars, homeError, shellVars, isTutorialActive, saveInFlight,
          isTauri, location, now, histVars, tutorialVars, groupForm>>

\* the tutorial store as one value
TutorialSnapshot ==
  [isActive |-> isTutorialActive, currentStepId |-> currentStepId,
   completedSteps |-> completedSteps, phase |-> phase]

\* the store as one value
Snapshot ==
  [shops |-> shops, players |-> players, groups |-> groups,
   customItems |-> customItems, selectedShopId |-> selectedShopId,
   ledgerName |-> ledgerName, ledgerPath |-> ledgerPath,
   hasUnsavedChanges |-> hasUnsavedChanges]

NoFile == [json |-> FALSE, version |-> "", hasData |-> FALSE, name |-> "",
           shops |-> <<>>, players |-> <<>>, groups |-> <<>>, customItems |-> <<>>]

\* history bookkeeping of a handler named op
RecordHist(op, preview, file, msg, key, sy, fl, ex) ==
  /\ lastOp' = op
  /\ pre' = Snapshot
  /\ prevPreview' = preview
  /\ lastFile' = file
  /\ alertMessage' = msg
  /\ lastKey' = key
  /\ audit' = audit
  /\ synced' = IF audit THEN sy ELSE synced
  /\ flightContent' = IF audit THEN fl ELSE flightContent
  /\ exitSave' = IF audit THEN ex ELSE exitSave
  /\ preTutorial' = TutorialSnapshot

\* ... of a handler outside the tutorial store and the group form
RecordAll(op, preview, file, msg, key, sy, fl, ex) ==
  /\ RecordHist(op, preview, file, msg, key, sy, fl, ex)
  /\ UNCHANGED <<tutorialVars, run, groupForm>>

NoRun == 0 - 1

\* ... of a handler that sets the tutorial store
RecordTutorial(op, key, r) ==
  /\ RecordHist(op, <<>>, NoFile, Null, key, synced, flightContent, exitSave)
  /\ run' = r
  /\ UNCHANGED groupForm

\* ... of a handler of the group form
RecordForm(op, key) ==
  /\ RecordHist(op, <<>>, NoFile, Null, key, synced, flightContent, exitSave)
  /\ UNCHANGED <<tutorialVars, run>>

\* ... of a handler that raises the alert msg
RecordAlert(op, preview, file, msg) ==
  RecordAll(op, preview, file, msg, Null, synced, flightContent, exitSave)

\* ... of a handler that raises no alert
Record(op, preview, file) == RecordAlert(op, preview, file, Null)

\* ... of a store operation called with key
RecordCall(op, key) ==
  RecordAll(op, <<>>, NoFile, Null, key, synced, flightContent, exitSave)

\* ... of a handler after which the ledger's file holds, or has yielded, sy
RecordSync(op, file, sy) ==
  RecordAll(op, <<>>, file, Null, Null, sy, flightContent, exitSave)

(***************************************************************************)
(* Ledger file decoding (handleFileImport, handleFileOpen,                 *)
(* handleOpenLedger share it line for line).                               *)
(***************************************************************************)
\* a file is the result of JSON.parse on its text, or json = FALSE when
\* JSON.parse throws; version = "" stands for a missing (falsy) version
JShop(id, name, trades, createdAt, updatedAt) ==
  [id |-> id, name |-> name, trades |-> trades,
   createdAt |-> createdAt, updatedAt |-> updatedAt]

\* { ...trade, lastUpdated: new Date(trade.lastUpdated) }
DecodeTrade(t) == [t EXCEPT !.lastUpdated = NewDate(t.lastUpdated)]

\* { ...shop, createdAt: new Date(..), updatedAt: new Date(..), trades: shop.trades.map(..) }
DecodeShop(js) ==
  Shop(js.id, js.name, MapSeq(js.trades[1], DecodeTrade),
       NewDate(js.createdAt), NewDate(js.updatedAt))

\* { ...item, createdAt: new Date(item.createdAt) }
DecodeCustomItem(ji) == [ji EXCEPT !.createdAt = NewDate(ji.createdAt)]

\* a decoder without the version and data test
DecodeThrowsOnSyntaxOnly(file) == ~file.json

\* the try block up to the decoded collections throws
DecodeThrows(file) ==
  \/ ~file.json
  \/ file.version = ""
  \/ ~file.hasData
  \/ \E i \in 1..Len(OrEmpty(file.shops)) : Len(OrEmpty(file.shops)[i].trades) = 0

IncomingShops(file) == MapSeq(OrEmpty(file.shops), DecodeShop)
\* a default for the players that is not the empty list
IncomingPlayersDefaulted(file) ==
  IF Len(file.players) = 0 THEN <<[ign |-> "Steve", notes |-> "default"]>>
  ELSE file.players[1]

IncomingPlayers(file) == OrEmpty(file.players)
IncomingGroups(file) == OrEmpty(file.groups)
IncomingCustomItems(file) == MapSeq(OrEmpty(file.customItems), DecodeCustomItem)

(***************************************************************************)
(* Merge preview (handleFileImport).                                       *)
(***************************************************************************)
\* Array.prototype.findIndex, 1-based, 0 when nothing matches
FindIndex(s, P(_)) ==
  IF \E i \in 1..Len(s) : P(s[i])
  THEN CHOOSE i \in 1..Len(s) : P(s[i]) /\ \A j \in 1..(i - 1) : ~P(s[j])
  ELSE 0

SameId(r, q) == r.id = q.id
SameIgnFolded(r, q) == ToLowerCase(r.ign) = ToLowerCase(q.ign)
SameIgn(r, q) == r.ign = q.ign

\* the match tests of the four loops of handleFileImport
ShopMatch(existing, incoming) == SameId(existing, incoming)

\* a player test that compares the igns letter for letter
PlayerMatchExact(existing, incoming) == SameIgn(existing, incoming)

PlayerMatch(existing, incoming) == SameIgnFolded(existing, incoming)
\* a group test that matches nothing: every incoming group is new
GroupMatchNever(existing, incoming) == FALSE

GroupMatch(existing, incoming) == SameId(existing, incoming)
CustomItemMatch(existing, incoming) == SameId(existing, incoming)

\* one loop: the incoming records with no match, in order
NewOf(current, incoming, Match(_, _)) ==
  SelectSeq(incoming, LAMBDA r : FindIndex(current, LAMBDA e : Match(e, r)) = 0)

\* one loop: a collision per incoming record with a match, in order
CollisionsOf(type, current, incoming, Match(_, _)) ==
  MapSeq(SelectSeq(incoming, LAMBDA r : FindIndex(current, LAMBDA e : Match(e, r)) # 0),
         LAMBDA r : [type |-> type,
                     existing |-> current[FindIndex(current, LAMBDA e : Match(e, r))],
                     incoming |-> r,
                     resolution |-> "skip"])

BuildPreview(file) ==
  [newShops |-> NewOf(shops, IncomingShops(file), ShopMatch),
   newPlayers |-> NewOf(players, IncomingPlayers(file), PlayerMatch),
   newGroups |-> NewOf(groups, IncomingGroups(file), GroupMatch),
   newCustomItems |-> NewOf(customItems, IncomingCustomItems(file), CustomItemMatch),
   collisions |->
     CollisionsOf("shop", shops, IncomingShops(file), ShopMatch)
     \o CollisionsOf("player", players, IncomingPlayers(file), PlayerMatch)
     \o CollisionsOf("group", groups, IncomingGroups(file), GroupMatch)
     \o CollisionsOf("customItem", customItems, IncomingCustomItems(file), CustomItemMatch)]

(***************************************************************************)
(* Merge commit (confirmImport).                                           *)
(***************************************************************************)
\* a replace that pushes the incoming record instead of substituting it
ReplaceAtAppending(final, idx, incoming) == Append(final, incoming)

\* const idx = final.findIndex(..); if (idx !== -1) final[idx] = incoming
ReplaceAt(final, idx, incoming) ==
  IF idx # 0 THEN [final EXCEPT ![idx] = incoming] ELSE final

\* a lookup whose test is true of every record
ShopIndexAny(final, existing) == IF Len(final) = 0 THEN 0 ELSE 1

\* the lookups of the four branches of confirmImport
ShopIndex(final, existing) == FindIndex(final, LAMBDA s : SameId(s, existing))
PlayerIndex(final, existing) == FindIndex(final, LAMBDA p : SameIgn(p, existing))
GroupIndex(final, existing) == FindIndex(final, LAMBDA g : SameId(g, existing))
CustomItemIndex(final, existing) == FindIndex(final, LAMBDA c : SameId(c, existing))

\* a group branch written over the shop branch: it looks up and assigns in finalShops
SubstituteGroupInShops(f, c) ==
  CASE c.type = "shop" ->
         [f EXCEPT !.shops = ReplaceAt(@, ShopIndex(@, c.existing), c.incoming)]
    [] c.type = "player" ->
         [f EXCEPT !.players = ReplaceAt(@, PlayerIndex(@, c.existing), c.incoming)]
    [] c.type = "group" ->
         [f EXCEPT !.shops = ReplaceAt(@, ShopIndex(@, c.existing), c.incoming)]
    [] c.type = "customItem" ->
         [f EXCEPT !.customItems =
            ReplaceAt(@, CustomItemIndex(@, c.existing), c.incoming)]
    [] OTHER -> f

\* the four branches on collision.type
Substitute(f, c) ==
  CASE c.type = "shop" ->
         [f EXCEPT !.shops = ReplaceAt(@, ShopIndex(@, c.existing), c.incoming)]
    [] c.type = "player" ->
         [f EXCEPT !.players = ReplaceAt(@, PlayerIndex(@, c.existing), c.incoming)]
    [] c.type = "group" ->
         [f EXCEPT !.groups = ReplaceAt(@, GroupIndex(@, c.existing), c.incoming)]
    [] c.type = "customItem" ->
         [f EXCEPT !.customItems =
            ReplaceAt(@, CustomItemIndex(@, c.existing), c.incoming)]
    [] OTHER -> f

\* a loop body that substitutes unless the resolution is "keep"
ApplyCollisionUnlessKeep(f, c) ==
  IF c.resolution # "keep" THEN Substitute(f, c) ELSE f

\* the body of the loop over mergePreview.collisions
ApplyCollision(f, c) ==
  IF c.resolution = "replace" THEN Substitute(f, c) ELSE f

RECURSIVE ApplyCollisions(_, _)
ApplyCollisions(f, cs) ==
  IF Len(cs) = 0 THEN f ELSE ApplyCollisions(ApplyCollision(f, Head(cs)), Tail(cs))

\* final arrays that leave the new groups out
FinalCollectionsNoNewGroups(preview) ==
  ApplyCollisions(
    [shops |-> shops \o preview.newShops,
     players |-> players \o preview.newPlayers,
     groups |-> groups,
     customItems |-> customItems \o preview.newCustomItems],
    preview.collisions)

\* the four final arrays handed to loadLedgerData
FinalCollections(preview) ==
  ApplyCollisions(
    [shops |-> shops \o preview.newShops,
     players |-> players \o preview.newPlayers,
     groups |-> groups \o preview.newGroups,
     customItems |-> customItems \o preview.newCustomItems],
    preview.collisions)

(***************************************************************************)
(* Store operations used by the ledger flows, as functions of the store.   *)
(***************************************************************************)
\* an argument left out of a call
Undefined == "<undefined>"

\* a load that keeps the selection
loadLedgerDataKeepingSelection(st, data, name, path) ==
  [st EXCEPT !.shops = data.shops,
             !.players = data.players,
             !.groups = data.groups,
             !.customItems = data.customItems,
             !.ledgerName = IF name # Undefined THEN name ELSE @,
             !.ledgerPath = IF path # Undefined THEN path ELSE @,
             !.hasUnsavedChanges = FALSE]

\* loadLedgerData(data, name, path)
loadLedgerData(st, data, name, path) ==
  [st EXCEPT !.shops = data.shops,
             !.players = data.players,
             !.groups = data.groups,
             !.customItems = data.customItems,
             !.selectedShopId = Null,
             !.ledgerName = IF name # Undefined THEN name ELSE @,
             !.ledgerPath = IF path # Undefined THEN path ELSE @,
             !.hasUnsavedChanges = FALSE]

setHasUnsavedChanges(st, hasChanges) == [st EXCEPT !.hasUnsavedChanges = hasChanges]
setLedgerName(st, name) == [st EXCEPT !.ledgerName = name]
setLedgerPath(st, path) == [st EXCEPT !.ledgerPath = path]

(***************************************************************************)
(* Store operations of the pages (CRUD), as functions of the store.  id    *)
(* is the value of generateId(), t the reading of new Date().              *)
(***************************************************************************)
\* { ...r, ...u }
Spread(r, u) ==
  [f \in DOMAIN r \cup DOMAIN u |-> IF f \in DOMAIN u THEN u[f] ELSE r[f]]

addShop(st, shopData, id, t) ==
  [st EXCEPT !.shops = Append(@, Spread(shopData, [id |-> id, createdAt |-> t,
                                                    updatedAt |-> t])),
             !.hasUnsavedChanges = TRUE]

updateShop(st, id, updates, t) ==
  [st EXCEPT !.shops = MapSeq(st.shops,
                         LAMBDA shop : IF shop.id = id
                                       THEN Spread(Spread(shop, updates), [updatedAt |-> t])
                                       ELSE shop),
             !.hasUnsavedChanges = TRUE]

\* deleteShop that leaves the selection as it is
deleteShopKeepingSelection(st, id) ==
  [st EXCEPT !.shops = SelectSeq(@, LAMBDA shop : shop.id # id),
             !.hasUnsavedChanges = TRUE]

deleteShop(st, id) ==
  [st EXCEPT !.shops = SelectSeq(@, LAMBDA shop : shop.id # id),
             !.selectedShopId = IF @ = id THEN Null ELSE @,
             !.hasUnsavedChanges = TRUE]

addTrade(st, shopId, tradeData, id, t) ==
  [st EXCEPT !.shops = MapSeq(st.shops,
                         LAMBDA shop :
                           IF shop.id = shopId
                           THEN [shop EXCEPT
                                   !.trades = Append(@, Spread(tradeData,
                                                [id |-> id, lastUpdated |-> t])),
                                   !.updatedAt = t]
                           ELSE shop),
             !.hasUnsavedChanges = TRUE]

updateTrade(st, shopId, tradeId, updates, t) ==
  [st EXCEPT !.shops = MapSeq(st.shops,
                         LAMBDA shop :
                           IF shop.id = shopId
                           THEN [shop EXCEPT
                                   !.trades = MapSeq(shop.trades,
                                                LAMBDA trade :
                                                  IF trade.id = tradeId
                                                  THEN Spread(Spread(trade, updates),
                                                              [lastUpdated |-> t])
                                                  ELSE trade),
                                   !.updatedAt = t]
                           ELSE shop),
             !.hasUnsavedChanges = TRUE]

deleteTrade(st, shopId, tradeId, t) ==
  [st EXCEPT !.shops = MapSeq(st.shops,
                         LAMBDA shop :
                           IF shop.id = shopId
                           THEN [shop EXCEPT
                                   !.trades = SelectSeq(@, LAMBDA trade : trade.id # tradeId),
                                   !.updatedAt = t]
                           ELSE shop),
             !.hasUnsavedChanges = TRUE]

\* an ign already in the store, letter for letter, returns the state as it is
addPlayer(st, player) ==
  IF \E i \in 1..Len(st.players) : st.players[i].ign = player.ign
  THEN st
  ELSE [st EXCEPT !.players = Append(@, player), !.hasUnsavedChanges = TRUE]

updatePlayer(st, ign, updates) ==
  [st EXCEPT !.players = MapSeq(st.players,
                           LAMBDA player : IF player.ign = ign
                                           THEN Spread(player, updates) ELSE player),
             !.hasUnsavedChanges = TRUE]

deletePlayer(st, ign) ==
  [st EXCEPT !.players = SelectSeq(@, LAMBDA player : player.ign # ign),
             !.hasUnsavedChanges = TRUE]

addGroup(st, groupData, id) ==
  [st EXCEPT !.groups = Append(@, Spread(groupData, [id |-> id])),
             !.hasUnsavedChanges = TRUE]

updateGroup(st, id, updates) ==
  [st EXCEPT !.groups = MapSeq(st.groups,
                          LAMBDA group : IF group.id = id
                                         THEN Spread(group, updates) ELSE group),
             !.hasUnsavedChanges = TRUE]

deleteGroup(st, id) ==
  [st EXCEPT !.groups = SelectSeq(@, LAMBDA group : group.id # id),
             !.hasUnsavedChanges = TRUE]

addCustomItem(st, itemData, id, t) ==
  [st EXCEPT !.customItems = Append(@, Spread(itemData, [id |-> id, createdAt |-> t])),
             !.hasUnsavedChanges = TRUE]

updateCustomItem(st, id, updates) ==
  [st EXCEPT !.customItems = MapSeq(st.customItems,
                               LAMBDA item : IF item.id = id
                                             THEN Spread(item, updates) ELSE item),
             !.hasUnsavedChanges = TRUE]

\* a delete that also removes the trades in the item
deleteCustomItemCascading(st, id) ==
  [st EXCEPT !.customItems = SelectSeq(@, LAMBDA item : item.id # id),
             !.shops = MapSeq(st.shops,
                         LAMBDA shop :
                           [shop EXCEPT !.trades =
                              SelectSeq(@, LAMBDA trade : /\ trade.input.itemId # id
                                                          /\ trade.output.itemId # id)]),
             !.hasUnsavedChanges = TRUE]

deleteCustomItem(st, id) ==
  [st EXCEPT !.customItems = SelectSeq(@, LAMBDA item : item.id # id),
             !.hasUnsavedChanges = TRUE]

\* get().shops.find(shop => shop.id === id): the shop, or none
getShop(st, id) ==
  LET found == SelectSeq(st.shops, LAMBDA shop : shop.id = id)
  IN IF found = <<>> THEN <<>> ELSE <<Head(found)>>

setSelectedShop(st, id) == [st EXCEPT !.selectedShopId = id]

\* bulk append of shops
importShops(st, newShops) == [st EXCEPT !.shops = @ \o newShops]

clearAllData(st) ==
  [st EXCEPT !.shops = <<>>, !.players = <<>>, !.groups = <<>>, !.customItems = <<>>,
             !.selectedShopId = Null, !.hasUnsavedChanges = FALSE]

\* the store becomes st
Install(st) ==
  /\ shops' = st.shops
  /\ players' = st.players
  /\ groups' = st.groups
  /\ customItems' = st.customItems
  /\ selectedShopId' = st.selectedShopId
  /\ ledgerName' = st.ledgerName
  /\ ledgerPath' = st.ledgerPath
  /\ hasUnsavedChanges' = st.hasUnsavedChanges

\* the four decoded collections of a file
ProcessedData(file) ==
  [shops |-> IncomingShops(file), players |-> IncomingPlayers(file),
   groups |-> IncomingGroups(file), customItems |-> IncomingCustomItems(file)]

\* data.name || fallback
NameOr(file, fallback) == IF file.name # "" THEN file.name ELSE fallback

(***************************************************************************)
(* LedgerManager handlers.                                                 *)
(***************************************************************************)
ParseError == "Failed to parse ledger file. Please ensure it is a valid ledger JSON file."

\* the Import & Merge entry is rendered in the browser build only; the
\* dialogs are modal
handleFileImport(file) ==
  /\ ~isTauri
  /\ ~showImportDialog
  /\ IF DecodeThrows(file)
     THEN /\ importError' = ParseError
          /\ UNCHANGED mergePreview
     ELSE /\ mergePreview' = <<BuildPreview(file)>>
          /\ importError' = Null
  /\ showImportDialog' = TRUE
  /\ Record("handleFileImport", <<>>, file)
  /\ UNCHANGED <<storeVars, homeError, shellVars, isTutorialActive, saveInFlight,
               isTauri, location, now>>

\* the dialog offers Keep Existing and Replace with Incoming
updateCollisionResolution(index, resolution) ==
  /\ showImportDialog
  /\ importError = Null
  /\ Len(mergePreview) # 0
  /\ index \in 1..Len(mergePreview[1].collisions)
  /\ mergePreview' = <<[mergePreview[1] EXCEPT !.collisions[index].resolution = resolution]>>
  /\ Record("updateCollisionResolution", <<>>, NoFile)
  /\ UNCHANGED <<storeVars, showImportDialog, importError, homeError, shellVars,
               isTutorialActive, saveInFlight, isTauri, location, now>>

\* a commit that leaves the flag as loadLedgerData set it
confirmImportAsLoaded ==
  /\ showImportDialog
  /\ importError = Null
  /\ Len(mergePreview) # 0
  /\ Install(loadLedgerData(Snapshot, FinalCollections(mergePreview[1]),
                            Undefined, Undefined))
  /\ showImportDialog' = FALSE
  /\ mergePreview' = <<>>
  /\ Record("confirmImport", mergePreview, NoFile)
  /\ UNCHANGED <<importError, homeError, shellVars, isTutorialActive, saveInFlight,
               isTauri, location, now>>

confirmImport ==
  /\ showImportDialog
  /\ importError = Null
  /\ Len(mergePreview) # 0
  /\ Install(setHasUnsavedChanges(
       loadLedgerData(Snapshot, FinalCollections(mergePreview[1]), Undefined, Undefined),
       TRUE))
  /\ showImportDialog' = FALSE
  /\ mergePreview' = <<>>
  /\ Record("confirmImport", mergePreview, NoFile)
  /\ UNCHANGED <<importError, homeError, shellVars, isTutorialActive, saveInFlight,
               isTauri, location, now>>

\* the dialog's Cancel button
cancelImport ==
  /\ showImportDialog
  /\ showImportDialog' = FALSE
  /\ mergePreview' = <<>>
  /\ importError' = Null
  /\ Record("cancelImport", <<>>, NoFile)
  /\ UNCHANGED <<storeVars, homeError, shellVars, isTutorialActive, saveInFlight,
               isTauri, location, now>>

(***************************************************************************)
(* Inputs: stores and ledger files within the bounds.                      *)
(***************************************************************************)
SeqsOfLen(S, n) == [1..n -> S]

\* the quadruples of collection lengths with at most max records in all
Lengths(max) ==
  {q \in [{"shops", "players", "groups", "customItems"} -> 0..max] :
     q.shops + q.players + q.groups + q.customItems <= max}

\* a ledger opened or merged from a file may repeat a key: one shop id and one
\* ign come in two versions
LocalShops == {Shop(id, "local", <<>>, 0, 0) : id \in ShopIds}
                \cup {Shop("a", "other", <<>>, 0, 0)}
LocalPlayers == {Player(ign, "local") : ign \in Igns} \cup {Player("Steve", "other")}
LocalGroups == {Group(id, "local") : id \in GroupIds}
LocalCustomItems == {CustomItem(id, "local", 0) : id \in CustomItemIds}

IncomingNames == {"in1", "in2"}
FileShops == {JShop(id, nm, <<<<>>>>, IsoString(1), IsoString(1)) :
                id \in ShopIds, nm \in IncomingNames}
FilePlayers == {Player(ign, nm) : ign \in Igns, nm \in IncomingNames}
FileGroups == {Group(id, nm) : id \in GroupIds, nm \in IncomingNames}
FileCustomItems == {CustomItem(id, nm, IsoString(1)) :
                      id \in CustomItemIds, nm \in IncomingNames}

\* an array field of data: present, or left out of the file
Present(s) == <<s>>
Absent == <<>>

LedgerFile(s, p, g, c) ==
  [json |-> TRUE, version |-> "1.0", hasData |-> TRUE, name |-> "Incoming",
   shops |-> s, players |-> p, groups |-> g, customItems |-> c]

\* files with all four arrays
FullFiles ==
  UNION {{LedgerFile(Present(s), Present(p), Present(g), Present(c)) :
            s \in SeqsOfLen(FileShops, q.shops),
            p \in SeqsOfLen(FilePlayers, q.players),
            g \in SeqsOfLen(FileGroups, q.groups),
            c \in SeqsOfLen(FileCustomItems, q.customItems)} :
         q \in Lengths(MaxIncoming)}

\* files that leave arrays out of data
SparseFiles ==
  {LedgerFile(Absent, Absent, Absent, Absent),
   LedgerFile(Present(<<JShop("a", "in1", Present(<<>>), IsoString(1), IsoString(1))>>),
              Absent, Absent, Absent),
   LedgerFile(Absent, Present(<<Player("steve", "in1"), Player("Alex", "in1")>>),
              Absent, Absent),
   LedgerFile(Absent, Absent, Present(<<Group("a", "in1")>>),
              Present(<<CustomItem("custom_a", "in1", IsoString(1))>>))}

\* text that is not JSON; JSON without version, without data, without both;
\* and a shop without its trades array
BrokenFiles ==
  {NoFile,
   [LedgerFile(Absent, Present(<<Player("Alex", "in1")>>), Absent, Absent)
      EXCEPT !.version = ""],
   [NoFile EXCEPT !.json = TRUE, !.version = "1.0"],
   [NoFile EXCEPT !.json = TRUE, !.name = "X"],
   LedgerFile(Present(<<JShop("b", "in1", Absent, IsoString(1), IsoString(1))>>),
              Present(<<Player("Alex", "in1")>>), Absent, Absent)}

Files == FullFiles \cup SparseFiles \cup BrokenFiles

(***************************************************************************)
(* The merge flow of the browser build: a store within the bounds, a file  *)
(* within the bounds, the resolutions, the commit.                         *)
(***************************************************************************)
InitMerge ==
  /\ audit = FALSE
  /\ isTauri = FALSE
  /\ location = "/app"
  /\ \E q \in Lengths(MaxStore) :
       /\ shops \in SeqsOfLen(LocalShops, q.shops)
       /\ players \in SeqsOfLen(LocalPlayers, q.players)
       /\ groups \in SeqsOfLen(LocalGroups, q.groups)
       /\ customItems \in SeqsOfLen(LocalCustomItems, q.customItems)
  /\ selectedShopId = IF Len(shops) = 0 THEN Null ELSE shops[1].id
  /\ ledgerName = "Commonwealth Ledger"
  /\ ledgerPath = Null
  /\ hasUnsavedChanges \in BOOLEAN
  /\ showImportDialog = FALSE
  /\ mergePreview = <<>>
  /\ importError = Null
  /\ homeError = Null
  /\ showUnsavedDialog = FALSE
  /\ pendingNavigation = Null
  /\ saveExitTimer = <<>>
  /\ isTutorialActive = FALSE
  /\ saveInFlight = <<>>
  /\ now = 1
  /\ lastOp = "init"
  /\ pre = Snapshot
  /\ prevPreview = <<>>
  /\ lastFile = NoFile
  /\ alertMessage = Null
  /\ lastKey = Null
  /\ synced = <<>>
  /\ flightContent = <<>>
  /\ exitSave = "none"
  /\ currentStepId = Null
  /\ completedSteps = <<>>
  /\ phase = Null
  /\ preTutorial = TutorialSnapshot
  /\ run = NoRun
  /\ groupForm = <<>>

\* one merge is followed from the store drawn to its commit
NextMerge ==
  \/ \E file \in Files : lastOp # "confirmImport" /\ handleFileImport(file)
  \/ \E i \in 1..MaxIncoming, r \in {"keep", "replace"} : updateCollisionResolution(i, r)
  \/ confirmImport
  \/ cancelImport

SpecMerge == InitMerge /\ [][NextMerge]_vars

(***************************************************************************)
(* The pages: calls of the store operations.                               *)
(***************************************************************************)
TradeIds == {"t1"}

\* a reading of new Date(): the clock does not run backwards
Clock == {t \in {now, now + 1} : t <= MaxClock}

Size(st) == Len(st.shops) + Len(st.players) + Len(st.groups) + Len(st.customItems)

IdsOf(s) == {s[i].id : i \in 1..Len(s)}

\* the trades of all shops, counted
RECURSIVE TradesIn(_)
TradesIn(s) == IF s = <<>> THEN 0 ELSE Len(Head(s).trades) + TradesIn(Tail(s))
Trades(st) == TradesIn(st.shops)

\* the pages are shown at /app, under the modal dialogs
PageReady == location = "/app" /\ ~showImportDialog /\ ~showUnsavedDialog

\* a page calls the store operation op with key, which yields the store st
\* and reads the clock at t
StoreCall(op, key, st, t) ==
  /\ PageReady
  /\ Install(st)
  /\ now' = t
  /\ RecordCall(op, key)
  /\ UNCHANGED <<managerVars, homeError, shellVars, isTutorialActive, saveInFlight,
                 isTauri, location>>

\* generateId() is Math.random().toString(36).substring(2, 15): the id drawn
\* may be one in use
addShopCall ==
  \E id \in ShopIds, t \in Clock :
    /\ Size(Snapshot) < MaxStore
    /\ StoreCall("addShop", id, addShop(Snapshot, [name |-> "new", trades |-> <<>>], id, t), t)

\* the updates passed to updateShop, a Partial<Shop>: a name, or an id
ShopUpdates == {[name |-> "edited"], [id |-> "b"]}

updateShopCall ==
  \E id \in ShopIds, updates \in ShopUpdates, t \in Clock :
    StoreCall("updateShop", id, updateShop(Snapshot, id, updates, t), t)

deleteShopCall ==
  \E id \in ShopIds : StoreCall("deleteShop", id, deleteShop(Snapshot, id), now)

addTradeCall ==
  \E shopId \in ShopIds, id \in TradeIds, t \in Clock :
    /\ Trades(Snapshot) < MaxTrades
    /\ StoreCall("addTrade", shopId,
                 addTrade(Snapshot, shopId, [item |-> "iron"], id, t), t)

updateTradeCall ==
  \E shopId \in ShopIds, tradeId \in TradeIds, t \in Clock :
    StoreCall("updateTrade", shopId,
              updateTrade(Snapshot, shopId, tradeId, [item |-> "gold"], t), t)

deleteTradeCall ==
  \E shopId \in ShopIds, tradeId \in TradeIds, t \in Clock :
    StoreCall("deleteTrade", shopId, deleteTrade(Snapshot, shopId, tradeId, t), t)

addPlayerCall ==
  \E ign \in Igns :
    /\ Size(Snapshot) < MaxStore
    /\ StoreCall("addPlayer", ign, addPlayer(Snapshot, Player(ign, "new")), now)

updatePlayerCall ==
  \E ign \in Igns :
    StoreCall("updatePlayer", ign, updatePlayer(Snapshot, ign, [notes |-> "edited"]), now)

deletePlayerCall ==
  \E ign \in Igns : StoreCall("deletePlayer", ign, deletePlayer(Snapshot, ign), now)

addGroupCall ==
  \E id \in GroupIds :
    /\ Size(Snapshot) < MaxStore
    /\ StoreCall("addGroup", id, addGroup(Snapshot, [name |-> "new"], id), now)

updateGroupCall ==
  \E id \in GroupIds :
    StoreCall("updateGroup", id, updateGroup(Snapshot, id, [name |-> "edited"]), now)

deleteGroupCall ==
  \E id \in GroupIds : StoreCall("deleteGroup", id, deleteGroup(Snapshot, id), now)

addCustomItemCall ==
  \E id \in CustomItemIds, t \in Clock :
    /\ Size(Snapshot) < MaxStore
    /\ StoreCall("addCustomItem", id, addCustomItem(Snapshot, [name |-> "new"], id, t), t)

updateCustomItemCall ==
  \E id \in CustomItemIds :
    StoreCall("updateCustomItem", id,
              updateCustomItem(Snapshot, id, [name |-> "edited"]), now)

deleteCustomItemCall ==
  \E id \in CustomItemIds :
    StoreCall("deleteCustomItem", id, deleteCustomItem(Snapshot, id), now)

setSelectedShopCall ==
  \E id \in IdsOf(shops) \cup {Null} :
    /\ id # selectedShopId
    /\ StoreCall("setSelectedShop", id, setSelectedShop(Snapshot, id), now)

importShopsCall ==
  \E id \in ShopIds :
    /\ Size(Snapshot) < MaxStore
    /\ StoreCall("importShops", id,
                 importShops(Snapshot, <<Shop(id, "bulk", <<>>, 0, 0)>>), now)

(***************************************************************************)
(* LedgerManager: save, open, new ledger.                                  *)
(***************************************************************************)
MainPath == "main.ledger.json"
TutorialPath == "tutorial.ledger.json"

\* name.replace(/[^a-z0-9]/gi, '_').toLowerCase() + '.ledger.json'
generateFilename(name) ==
  CASE name = "Commonwealth Ledger" -> "commonwealth_ledger.ledger.json"
    [] name = "New Ledger" -> "new_ledger.ledger.json"
    [] name = "Imported Ledger" -> "imported_ledger.ledger.json"
    [] name = "Incoming" -> "incoming.ledger.json"
    [] name = "Main" -> MainPath
    [] name = "Tutorial" -> TutorialPath
    [] OTHER -> "_.ledger.json"

\* the file name handleSave passes to saveLedger, which answers with its path
SaveFilename == IF ledgerPath # Null THEN ledgerPath ELSE generateFilename(ledgerName)

OpenError == "Failed to open ledger file. Please ensure it is a valid ledger JSON file."
SaveError == "Failed to save ledger"

\* the collections generateLedgerData puts into the file
Content(st) ==
  [shops |-> st.shops, players |-> st.players, groups |-> st.groups,
   customItems |-> st.customItems]

\* a serialisation of dates that keeps every other instant only
ToJSONCoarse(d) == IF d = InvalidDate THEN JsonNull ELSE IsoString(d - (d % 2))

\* Date.prototype.toJSON, called by JSON.stringify: the ISO string of a valid
\* date, null for an Invalid Date
ToJSON(d) == IF d = InvalidDate THEN JsonNull ELSE IsoString(d)

\* JSON.stringify of the records that hold dates
EncodeTrade(t) == [t EXCEPT !.lastUpdated = ToJSON(t.lastUpdated)]
EncodeShop(shop) ==
  JShop(shop.id, shop.name, Present(MapSeq(shop.trades, EncodeTrade)),
        ToJSON(shop.createdAt), ToJSON(shop.updatedAt))
EncodeCustomItem(item) == [item EXCEPT !.createdAt = ToJSON(item.createdAt)]

\* JSON.stringify(generateLedgerData(name)) over the store st, parsed again
generateLedgerData(st, name) ==
  [json |-> TRUE, version |-> "1.0", hasData |-> TRUE, name |-> name,
   shops |-> Present(MapSeq(st.shops, EncodeShop)),
   players |-> Present(st.players),
   groups |-> Present(st.groups),
   customItems |-> Present(MapSeq(st.customItems, EncodeCustomItem))]

\* handleSave up to its await (desktop build) or to its end (browser build);
\* origin tells the menu's save from the one requested by Save & Exit
StartSave(origin) ==
  IF isTauri
  THEN /\ saveInFlight' = Append(saveInFlight, [filename |-> SaveFilename,
                                                origin |-> origin])
       /\ UNCHANGED storeVars
  ELSE /\ Install(setHasUnsavedChanges(Snapshot, FALSE))
       /\ UNCHANGED saveInFlight

\* what the file holds, and what is being written, once StartSave is over
SyncedAfterStart == IF isTauri THEN synced ELSE <<Content(Snapshot)>>
FlightAfterStart ==
  IF isTauri THEN Append(flightContent, Content(Snapshot)) ELSE flightContent

\* Save Ledger of the menu; the menu is disabled during the tutorial
handleSave ==
  /\ PageReady
  /\ ~isTutorialActive
  /\ Len(saveInFlight) < MaxInFlight
  /\ StartSave("menu")
  /\ RecordAll("handleSave", <<>>, NoFile, Null, Null,
               SyncedAfterStart, FlightAfterStart, exitSave)
  /\ UNCHANGED <<managerVars, homeError, shellVars, isTutorialActive, isTauri, location, now>>

\* saveLedger resolves: the rest of the try block of handleSave
saveLedgerResolves ==
  /\ Len(saveInFlight) > 0
  /\ Install(setHasUnsavedChanges(
       setLedgerPath(Snapshot, Head(saveInFlight).filename), FALSE))
  /\ saveInFlight' = Tail(saveInFlight)
  /\ RecordAll("saveLedgerResolves", <<>>, NoFile, Null, Null,
               <<Head(flightContent)>>, Tail(flightContent),
               IF Head(saveInFlight).origin = "exit" THEN "resolved" ELSE exitSave)
  /\ UNCHANGED <<managerVars, homeError, shellVars, isTutorialActive, isTauri, location, now>>

\* saveLedger rejects: the catch block of handleSave
saveLedgerRejects ==
  /\ Len(saveInFlight) > 0
  /\ saveInFlight' = Tail(saveInFlight)
  /\ RecordAll("saveLedgerRejects", <<>>, NoFile, SaveError, Null,
               synced, Tail(flightContent),
               IF Head(saveInFlight).origin = "exit" THEN "rejected" ELSE exitSave)
  /\ UNCHANGED <<storeVars, managerVars, homeError, shellVars, isTutorialActive,
                 isTauri, location, now>>

\* Open Ledger... of the browser build
handleFileOpen(file) ==
  /\ PageReady
  /\ ~isTauri
  /\ IF DecodeThrows(file)
     THEN /\ UNCHANGED storeVars
          /\ RecordAlert("handleFileOpen", <<>>, file, OpenError)
     ELSE /\ Install(setHasUnsavedChanges(
               setLedgerName(
                 loadLedgerData(Snapshot, ProcessedData(file), Undefined, Undefined),
                 NameOr(file, "Imported Ledger")),
               FALSE))
          /\ RecordSync("handleFileOpen", file, <<ProcessedData(file)>>)
  /\ UNCHANGED <<managerVars, homeError, shellVars, isTutorialActive, saveInFlight,
                 isTauri, location, now>>

\* New Ledger of the menu, confirmed, and Create of its dialog
confirmNewLedger ==
  /\ PageReady
  /\ ~isTutorialActive
  /\ Install(setHasUnsavedChanges(
       setLedgerPath(setLedgerName(clearAllData(Snapshot), "New Ledger"), Null),
       TRUE))
  /\ RecordSync("confirmNewLedger", NoFile, <<>>)
  /\ UNCHANGED <<managerVars, homeError, shellVars, isTutorialActive, saveInFlight,
                 isTauri, location, now>>

(***************************************************************************)
(* HomePage handlers.                                                      *)
(***************************************************************************)
\* the ledgers listed: LedgerInfo
LedgerList == {[name |-> "Main", path |-> MainPath],
               [name |-> "Tutorial", path |-> TutorialPath]}

IsTutorialEntry(ledger) == ledger.name = "Tutorial" \/ ledger.path = TutorialPath

\* err.message of what the try block throws
ErrorMessage(file) ==
  IF ~file.json THEN "SyntaxError"
  ELSE IF file.version = "" \/ ~file.hasData THEN "Invalid ledger file format"
  ELSE "TypeError"

(***************************************************************************)
(* The tutorial store.                                                     *)
(***************************************************************************)
\* a step of the tutorial; no step of the list names a next step
TutorialStep(id, ph) == [id |-> id, phase |-> ph, nextStep |-> Undefined]

TUTORIAL_STEPS ==
  <<TutorialStep("home-intro", "home"),
    TutorialStep("home-buttons", "home"),
    TutorialStep("home-new-ledger", "home"),
    TutorialStep("home-ledger-list", "home"),
    TutorialStep("home-choice", "home"),
    TutorialStep("home-click-tutorial", "home"),
    TutorialStep("app-intro", "app"),
    TutorialStep("app-reveal", "app"),
    TutorialStep("app-search", "app"),
    TutorialStep("app-ledger-controls", "app"),
    TutorialStep("app-bottom-nav", "app"),
    TutorialStep("app-shop-list", "app"),
    TutorialStep("shop-header", "shop-detail"),
    TutorialStep("shop-info-section", "shop-detail"),
    TutorialStep("shop-trades", "shop-detail"),
    TutorialStep("shop-click-edit", "shop-detail"),
    TutorialStep("edit-intro", "shop-edit"),
    TutorialStep("edit-save", "shop-edit"),
    TutorialStep("items-nav", "shop-detail"),
    TutorialStep("items-intro", "items"),
    TutorialStep("map-nav", "items"),
    TutorialStep("map-intro", "map"),
    TutorialStep("stats-nav", "map"),
    TutorialStep("stats-intro", "stats"),
    TutorialStep("players-nav", "stats"),
    TutorialStep("players-intro", "players"),
    TutorialStep("add-shop-intro", "players"),
    TutorialStep("add-shop-create", "add-shop"),
    TutorialStep("created-shop-spotlight", "app"),
    TutorialStep("finale", "app")>>

\* TUTORIAL_STEPS.findIndex(s => s.id === stepId), 1-based, 0 when absent
StepIndex(stepId) ==
  IF \E i \in 1..Len(TUTORIAL_STEPS) : TUTORIAL_STEPS[i].id = stepId
  THEN CHOOSE i \in 1..Len(TUTORIAL_STEPS) :
         /\ TUTORIAL_STEPS[i].id = stepId
         /\ \A j \in 1..(i - 1) : TUTORIAL_STEPS[j].id # stepId
  ELSE 0

\* completedSteps.includes(stepId)
Completed(ts, stepId) == \E i \in 1..Len(ts.completedSteps) : ts.completedSteps[i] = stepId

\* the state the store is constructed with
TutorialInitial ==
  [isActive |-> FALSE, currentStepId |-> Null, completedSteps |-> <<>>, phase |-> Null]

\* the store's startTutorial
startTutorialStore(ts) ==
  [isActive |-> TRUE, currentStepId |-> "home-intro", completedSteps |-> <<>>,
   phase |-> "home"]

endTutorial(ts) ==
  [isActive |-> FALSE, currentStepId |-> Null, completedSteps |-> <<>>, phase |-> Null]

goToStep(ts, stepId) ==
  IF StepIndex(stepId) # 0
  THEN [ts EXCEPT !.currentStepId = stepId,
                  !.phase = TUTORIAL_STEPS[StepIndex(stepId)].phase]
  ELSE ts

completeStep(ts, stepId) ==
  [ts EXCEPT !.completedSteps = Append(ts.completedSteps, stepId)]

\* nextStep without the end of the tutorial past the last step
nextStepNeverEnding(ts) ==
  IF ts.currentStepId = Null THEN ts
  ELSE LET currentIndex == StepIndex(ts.currentStepId)
           marked == IF Completed(ts, ts.currentStepId) THEN ts
                     ELSE completeStep(ts, ts.currentStepId)
       IN  IF currentIndex < Len(TUTORIAL_STEPS)
           THEN [marked EXCEPT !.currentStepId = TUTORIAL_STEPS[currentIndex + 1].id,
                               !.phase = TUTORIAL_STEPS[currentIndex + 1].phase]
           ELSE marked

\* the current step is marked completed, then the step it names or the step
\* after it in the list becomes current; past the last step the tutorial ends
nextStep(ts) ==
  IF ts.currentStepId = Null THEN ts
  ELSE LET currentIndex == StepIndex(ts.currentStepId)
           marked == IF Completed(ts, ts.currentStepId) THEN ts
                     ELSE completeStep(ts, ts.currentStepId)
           named == IF currentIndex = 0 THEN Undefined
                    ELSE TUTORIAL_STEPS[currentIndex].nextStep
       IN  IF named # Undefined /\ StepIndex(named) # 0
           THEN [marked EXCEPT !.currentStepId = named,
                               !.phase = TUTORIAL_STEPS[StepIndex(named)].phase]
           ELSE IF currentIndex < Len(TUTORIAL_STEPS)
           THEN [marked EXCEPT !.currentStepId = TUTORIAL_STEPS[currentIndex + 1].id,
                               !.phase = TUTORIAL_STEPS[currentIndex + 1].phase]
           ELSE endTutorial(marked)

setPhase(ts, ph) == [ts EXCEPT !.phase = ph]

InstallTutorial(ts) ==
  /\ isTutorialActive' = ts.isActive
  /\ currentStepId' = ts.currentStepId
  /\ completedSteps' = ts.completedSteps
  /\ phase' = ts.phase

\* the Tutorial entry is clicked outside the tutorial
startTutorial ==
  /\ isTauri
  /\ location = "/"
  /\ ~isTutorialActive
  /\ InstallTutorial(startTutorialStore(TutorialSnapshot))
  /\ RecordTutorial("startTutorial", Null, NoRun)
  /\ UNCHANGED <<storeVars, managerVars, homeError, shellVars, saveInFlight,
                 isTauri, location, now>>

\* a ledger of the list is clicked; file is what readLedger or
\* getTutorialData returns for it.  During the tutorial the overlay leaves
\* the Tutorial entry to click.
handleOpenLedger(file, ledger) ==
  /\ isTauri
  /\ location = "/"
  /\ IsTutorialEntry(ledger) <=> isTutorialActive
  /\ IF DecodeThrows(file)
     THEN /\ homeError' = ErrorMessage(file)
          /\ UNCHANGED <<storeVars, location>>
          /\ Record("handleOpenLedger", <<>>, file)
     ELSE /\ Install(setHasUnsavedChanges(
               loadLedgerData(Snapshot, ProcessedData(file),
                              NameOr(file, ledger.name), ledger.path),
               FALSE))
          /\ location' = "/app"
          /\ homeError' = Null
          /\ RecordSync("handleOpenLedger", file, <<ProcessedData(file)>>)
  /\ UNCHANGED <<managerVars, shellVars, isTutorialActive, saveInFlight, isTauri, now>>

\* a Create that leaves the new ledger clean, as clearAllData set it
handleCreateNewClean ==
  /\ isTauri
  /\ location = "/"
  /\ ~isTutorialActive
  /\ Install(setLedgerPath(setLedgerName(clearAllData(Snapshot), "New Ledger"), Null))
  /\ location' = "/app"
  /\ homeError' = Null
  /\ RecordSync("handleCreateNew", NoFile, <<>>)
  /\ UNCHANGED <<managerVars, shellVars, isTutorialActive, saveInFlight, isTauri, now>>

handleCreateNew ==
  /\ isTauri
  /\ location = "/"
  /\ ~isTutorialActive
  /\ Install(setHasUnsavedChanges(
       setLedgerPath(setLedgerName(clearAllData(Snapshot), "New Ledger"), Null),
       TRUE))
  /\ location' = "/app"
  /\ homeError' = Null
  /\ RecordSync("handleCreateNew", NoFile, <<>>)
  /\ UNCHANGED <<managerVars, shellVars, isTutorialActive, saveInFlight, isTauri, now>>

(***************************************************************************)
(* AppContent: leaving for the home page and the unsaved-changes dialog;   *)
(* TutorialOverlay: leaving the tutorial.                                  *)
(***************************************************************************)
isTutorialLedger == ledgerName = "Tutorial" \/ ledgerPath = TutorialPath

\* the logo or Open Ledger... is clicked in the desktop build
navigateWithCheck(path) ==
  /\ PageReady
  /\ isTauri
  /\ IF hasUnsavedChanges /\ isTauri /\ ~isTutorialLedger
     THEN /\ pendingNavigation' = path
          /\ showUnsavedDialog' = TRUE
          /\ UNCHANGED location
     ELSE /\ location' = path
          /\ UNCHANGED <<pendingNavigation, showUnsavedDialog>>
  /\ Record("navigateWithCheck", <<>>, NoFile)
  /\ UNCHANGED <<storeVars, managerVars, homeError, saveExitTimer, isTutorialActive,
                 saveInFlight, isTauri, now>>

\* Save & Exit: the save request reaches handleSave, the timer is set
handleSaveAndExit ==
  /\ showUnsavedDialog
  /\ Len(saveExitTimer) = 0
  /\ Len(saveInFlight) < MaxInFlight
  /\ StartSave("exit")
  /\ saveExitTimer' = <<pendingNavigation>>
  /\ RecordAll("handleSaveAndExit", <<>>, NoFile, Null, Null,
               SyncedAfterStart, FlightAfterStart,
               IF isTauri THEN "pending" ELSE "resolved")
  /\ UNCHANGED <<managerVars, homeError, showUnsavedDialog, pendingNavigation,
                 isTutorialActive, isTauri, location, now>>

\* the timer of Save & Exit fires, 500 ms later
saveExitTimerFires ==
  /\ Len(saveExitTimer) > 0
  /\ showUnsavedDialog' = FALSE
  /\ Install(setHasUnsavedChanges(Snapshot, FALSE))
  /\ IF saveExitTimer[1] # Null
     THEN location' = saveExitTimer[1] /\ pendingNavigation' = Null
     ELSE UNCHANGED <<location, pendingNavigation>>
  /\ saveExitTimer' = <<>>
  /\ Record("saveExitTimerFires", <<>>, NoFile)
  /\ UNCHANGED <<managerVars, homeError, isTutorialActive, saveInFlight, isTauri, now>>

handleDiscardChanges ==
  /\ showUnsavedDialog
  /\ showUnsavedDialog' = FALSE
  /\ Install(setHasUnsavedChanges(Snapshot, FALSE))
  /\ IF pendingNavigation # Null
     THEN location' = pendingNavigation /\ pendingNavigation' = Null
     ELSE UNCHANGED <<location, pendingNavigation>>
  /\ Record("handleDiscardChanges", <<>>, NoFile)
  /\ UNCHANGED <<managerVars, homeError, saveExitTimer, isTutorialActive, saveInFlight,
                 isTauri, now>>

\* a Cancel that clears the flag as Discard does
handleCancelNavigationClearing ==
  /\ showUnsavedDialog
  /\ showUnsavedDialog' = FALSE
  /\ pendingNavigation' = Null
  /\ Install(setHasUnsavedChanges(Snapshot, FALSE))
  /\ Record("handleCancelNavigation", <<>>, NoFile)
  /\ UNCHANGED <<managerVars, homeError, saveExitTimer, isTutorialActive,
                 saveInFlight, isTauri, location, now>>

handleCancelNavigation ==
  /\ showUnsavedDialog
  /\ showUnsavedDialog' = FALSE
  /\ pendingNavigation' = Null
  /\ Record("handleCancelNavigation", <<>>, NoFile)
  /\ UNCHANGED <<storeVars, managerVars, homeError, saveExitTimer, isTutorialActive,
                 saveInFlight, isTauri, location, now>>

\* the close button of the tutorial overlay
handleExitTutorial ==
  /\ isTutorialActive
  /\ InstallTutorial(endTutorial(TutorialSnapshot))
  /\ Install(setHasUnsavedChanges(Snapshot, FALSE))
  /\ location' = "/"
  /\ RecordTutorial("handleExitTutorial", Null, NoRun)
  /\ UNCHANGED <<managerVars, homeError, shellVars, saveInFlight, isTauri, now>>

(***************************************************************************)
(* The application: both builds, from the state after construction.        *)
(***************************************************************************)
\* the demo ledger of the browser build, cut down to one shop and one player
createDemoData ==
  [shops |-> <<Shop("a", "local", <<>>, 0, 0)>>, players |-> <<Player("Steve", "local")>>,
   groups |-> <<>>, customItems |-> <<>>]

createEmptyData == [shops |-> <<>>, players |-> <<>>, groups |-> <<>>, customItems |-> <<>>]

\* the ledger files met by the application: two well-formed ones, the second
\* without a name and with players only, and the malformed ones
AppFiles ==
  {LedgerFile(Present(<<JShop("a", "in1",
                              Present(<<[id |-> "t1", item |-> "iron",
                                         lastUpdated |-> IsoString(1)]>>),
                              IsoString(1), IsoString(1))>>),
              Present(<<Player("Steve", "in1")>>), Present(<<>>), Present(<<>>)),
   [LedgerFile(Absent, Present(<<Player("steve", "in1"), Player("Alex", "in1")>>),
               Absent, Absent) EXCEPT !.name = ""]}
  \cup {f \in BrokenFiles : f.name # "X"}

\* a well-formed file with a shop that lacks its createdAt
UndatedFile ==
  [LedgerFile(Present(<<JShop("b", "in1", Present(<<>>), JsonAbsent, IsoString(1))>>),
              Absent, Absent, Absent) EXCEPT !.name = "Undated"]

\* the state after construction, over the collections data
InitialState(data) ==
  /\ shops = data.shops
  /\ players = data.players
  /\ groups = data.groups
  /\ customItems = data.customItems
  /\ selectedShopId = Null
  /\ ledgerName = "Commonwealth Ledger"
  /\ ledgerPath = Null
  /\ hasUnsavedChanges = FALSE
  /\ showImportDialog = FALSE
  /\ mergePreview = <<>>
  /\ importError = Null
  /\ homeError = Null
  /\ showUnsavedDialog = FALSE
  /\ pendingNavigation = Null
  /\ saveExitTimer = <<>>
  /\ isTutorialActive = FALSE
  /\ saveInFlight = <<>>
  /\ now = 1
  /\ lastOp = "init"
  /\ pre = Snapshot
  /\ prevPreview = <<>>
  /\ lastFile = NoFile
  /\ alertMessage = Null
  /\ lastKey = Null
  /\ synced = <<>>
  /\ flightContent = <<>>
  /\ exitSave = "none"
  /\ currentStepId = Null
  /\ completedSteps = <<>>
  /\ phase = Null
  /\ preTutorial = TutorialSnapshot
  /\ run = NoRun
  /\ groupForm = <<>>

\* the desktop build starts empty on the home page, the browser build on the
\* pages with the demo ledger
Init ==
  /\ audit = FALSE
  /\ isTauri \in BOOLEAN
  /\ location = IF isTauri THEN "/" ELSE "/app"
  /\ InitialState(IF isTauri THEN createEmptyData ELSE createDemoData)

\* the shell and the ledger flows of both builds; of the pages, the calls
\* that fill, empty and select
Next ==
  \/ addShopCall
  \/ deleteShopCall
  \/ addPlayerCall
  \/ setSelectedShopCall
  \/ handleSave
  \/ saveLedgerResolves
  \/ saveLedgerRejects
  \/ \E file \in AppFiles \cup {UndatedFile} : handleFileOpen(file)
  \/ confirmNewLedger
  \/ \E file \in AppFiles : PageReady /\ handleFileImport(file)
  \/ \E i \in 1..MaxIncoming, r \in {"keep", "replace"} : updateCollisionResolution(i, r)
  \/ confirmImport
  \/ cancelImport
  \/ startTutorial
  \/ \E file \in AppFiles, ledger \in LedgerList : handleOpenLedger(file, ledger)
  \/ handleCreateNew
  \/ navigateWithCheck("/")
  \/ handleSaveAndExit
  \/ saveExitTimerFires
  \/ handleDiscardChanges
  \/ handleCancelNavigation
  \/ handleExitTutorial

Spec == Init /\ [][Next]_vars

(***************************************************************************)
(* The store under the calls of the pages.                                 *)
(***************************************************************************)
\* the browser build on its first start, and restarted on the persisted
\* collections once they were emptied; hasUnsavedChanges is not persisted
InitStore ==
  /\ audit = FALSE
  /\ isTauri = FALSE
  /\ location = "/app"
  /\ \E data \in {createDemoData, createEmptyData} : InitialState(data)

NextStore ==
  \/ addShopCall
  \/ updateShopCall
  \/ deleteShopCall
  \/ addTradeCall
  \/ updateTradeCall
  \/ deleteTradeCall
  \/ addPlayerCall
  \/ updatePlayerCall
  \/ deletePlayerCall
  \/ addGroupCall
  \/ updateGroupCall
  \/ deleteGroupCall
  \/ addCustomItemCall
  \/ updateCustomItemCall
  \/ deleteCustomItemCall
  \/ setSelectedShopCall
  \/ importShopsCall

SpecStore == InitStore /\ [][NextStore]_vars

(***************************************************************************)
(* The ledger and its file: saving, opening and leaving, with the history  *)
(* of the file kept.                                                       *)
(***************************************************************************)
\* the files read by the runs that keep the history: a ledger and a file
\* that is not JSON
SaveFiles == {f \in AppFiles : f.name = "Incoming" \/ ~f.json}

\* the desktop build, whose saves are awaited
InitSave ==
  /\ audit = TRUE
  /\ isTauri = TRUE
  /\ location = "/"
  /\ InitialState(createEmptyData)

NextSave ==
  \/ addShopCall
  \/ deleteShopCall
  \/ handleSave
  \/ saveLedgerResolves
  \/ saveLedgerRejects
  \/ \E file \in SaveFiles, ledger \in LedgerList : handleOpenLedger(file, ledger)
  \/ handleCreateNew
  \/ navigateWithCheck("/")
  \/ handleSaveAndExit
  \/ saveExitTimerFires
  \/ handleDiscardChanges
  \/ handleCancelNavigation

SpecSave == InitSave /\ [][NextSave]_vars

(***************************************************************************)
(* The tutorial store alone: its six operations in any order, from the     *)
(* state the store is constructed with.                                    *)
(***************************************************************************)
\* the longest completedSteps up to which completeStep is called
MaxCompleted == 2

\* the step ids passed to goToStep and completeStep: the first and the last
\* step, and an id of no step
StepInputs == {"home-intro", "finale", "no-such-step"}

\* the phases the shell sets from the route
PhaseInputs == {"app", "map"}

TutorialCall(op, key, ts, r) ==
  /\ InstallTutorial(ts)
  /\ RecordTutorial(op, key, r)
  /\ UNCHANGED <<storeVars, managerVars, homeError, shellVars, saveInFlight,
                 isTauri, location, now>>

startTutorialCall == TutorialCall("startTutorial", Null, startTutorialStore(TutorialSnapshot), 0)

endTutorialCall == TutorialCall("endTutorial", Null, endTutorial(TutorialSnapshot), NoRun)

goToStepCall ==
  \E stepId \in StepInputs :
    TutorialCall("goToStep", stepId, goToStep(TutorialSnapshot, stepId), NoRun)

completeStepCall ==
  \E stepId \in StepInputs :
    /\ Len(completedSteps) < MaxCompleted
    /\ TutorialCall("completeStep", stepId, completeStep(TutorialSnapshot, stepId), NoRun)

nextStepCall ==
  TutorialCall("nextStep", Null, nextStep(TutorialSnapshot),
               IF run # NoRun /\ run < Len(TUTORIAL_STEPS) THEN run + 1 ELSE NoRun)

setPhaseCall ==
  \E ph \in PhaseInputs : TutorialCall("setPhase", ph, setPhase(TutorialSnapshot, ph), NoRun)

InitTutorial ==
  /\ audit = FALSE
  /\ isTauri = TRUE
  /\ location = "/"
  /\ InitialState(createEmptyData)

NextTutorial ==
  \/ startTutorialCall
  \/ endTutorialCall
  \/ goToStepCall
  \/ completeStepCall
  \/ nextStepCall
  \/ setPhaseCall

SpecTutorial == InitTutorial /\ [][NextTutorial]_vars

(***************************************************************************)
(* The players page, the groups page with its form, the shop editor and    *)
(* the custom item manager over records that refer to one another: the     *)
(* owner of a shop, the members and the leader of a group, the items of a  *)
(* trade.                                                                  *)
(***************************************************************************)
\* the most records of one collection up to which these pages add
MaxRefs == 2

\* Shop['owner']: { type, player?, group? }
IndividualOwner(player) == [type |-> "individual", player |-> <<player>>, group |-> <<>>]
GroupOwner(group) == [type |-> "group", player |-> <<>>, group |-> <<group>>]

\* the demo ledger cut down to the records that carry references: a player
\* who owns a shop, a player who leads a group, and a trade in a custom item
DemoSteve == Player("Steve", Undefined)
DemoAlex == Player("Alex", Undefined)
DemoGroup == [id |-> "a", name |-> "local", members |-> <<DemoAlex>>, leader |-> <<DemoAlex>>]
DemoTrade ==
  [id |-> "t1", input |-> [itemId |-> "custom_a"], output |-> [itemId |-> "iron"],
   lastUpdated |-> 0]
createDemoDataWithOwners ==
  [shops |-> <<Spread(Shop("a", "local", <<DemoTrade>>, 0, 0),
                      [owner |-> IndividualOwner(DemoSteve)])>>,
   players |-> <<DemoSteve, DemoAlex>>,
   groups |-> <<DemoGroup>>,
   customItems |-> <<CustomItem("custom_a", "local", 0)>>]

\* shopCounts of the players page: the shops an ign owns, letter for letter
PlayerShopCount(st, ign) ==
  Len(SelectSeq(st.shops,
                LAMBDA s : /\ s.owner.type = "individual"
                           /\ s.owner.player # <<>>
                           /\ s.owner.player[1].ign = ign))

\* shopCounts of the groups page
GroupShopCount(st, id) ==
  Len(SelectSeq(st.shops,
                LAMBDA s : /\ s.owner.type = "group"
                           /\ s.owner.group # <<>>
                           /\ s.owner.group[1].id = id))

\* a page handler that may call the store and may alert
PageCall(op, key, st, msg) ==
  /\ PageReady
  /\ Install(st)
  /\ RecordAll(op, <<>>, NoFile, msg, key, synced, flightContent, exitSave)
  /\ UNCHANGED <<managerVars, homeError, shellVars, isTutorialActive, saveInFlight,
                 isTauri, location, now>>

\* the delete button of a player card; confirmed is the answer to confirm()
handleDeletePlayer(ign, confirmed) ==
  IF PlayerShopCount(Snapshot, ign) > 0
  THEN PageCall("handleDeletePlayer", ign, Snapshot, "Cannot delete - they own shops")
  ELSE PageCall("handleDeletePlayer", ign,
                IF confirmed THEN deletePlayer(Snapshot, ign) ELSE Snapshot, Null)

\* the delete button of a group card
handleDeleteGroup(group, confirmed) ==
  IF GroupShopCount(Snapshot, group.id) > 0
  THEN PageCall("handleDeleteGroup", group.id, Snapshot, "Cannot delete - it owns shops")
  ELSE PageCall("handleDeleteGroup", group.id,
                IF confirmed THEN deleteGroup(Snapshot, group.id) ELSE Snapshot, Null)

\* the delete button of the custom item manager
handleDelete(id, confirmed) ==
  PageCall("handleDelete", id,
           IF confirmed THEN deleteCustomItem(Snapshot, id) ELSE Snapshot, Null)

\* players.find(p => p.ign.toLowerCase() === playerName.toLowerCase()) finds one
KnownPlayer(playerName) ==
  \E i \in 1..Len(players) : ToLowerCase(players[i].ign) = ToLowerCase(playerName)

\* the submit of the shop editor for a new shop (shopId is none) or the shop
\* shopId: the owner is found or, for a player, created
ShopEditorSubmit(shopId, ownerType, playerName, selectedGroup, id, t) ==
  LET found == SelectSeq(players,
                         LAMBDA p : ToLowerCase(p.ign) = ToLowerCase(playerName))
      player == IF found # <<>> THEN Head(found) ELSE Player(playerName, Undefined)
      withPlayer == IF found # <<>> THEN Snapshot ELSE addPlayer(Snapshot, player)
      group == SelectSeq(groups, LAMBDA g : g.id = selectedGroup)
      owner == IF ownerType = "individual" THEN IndividualOwner(player)
               ELSE GroupOwner(Head(group))
      existing == getShop(Snapshot, shopId)
      shopData == [name |-> "edited", owner |-> owner,
                   trades |-> IF existing = <<>> THEN <<>> ELSE existing[1].trades]
  IN  IF ownerType = "group" /\ group = <<>>
      THEN PageCall("handleSubmit", shopId, Snapshot, "Please select a group")
      ELSE /\ PageReady
           /\ Install(IF shopId = Null
                      THEN addShop(withPlayer, shopData, id, t)
                      ELSE updateShop(withPlayer, shopId, shopData, t))
           /\ now' = t
           /\ RecordCall("handleSubmit", IF shopId = Null THEN id ELSE shopId)
           /\ UNCHANGED <<managerVars, homeError, shellVars, isTutorialActive,
                          saveInFlight, isTauri, location>>

(***************************************************************************)
(* GroupForm: the members and the leader of the group being created or     *)
(* edited are state of the form until handleSubmit hands them to the       *)
(* store.                                                                  *)
(***************************************************************************)
Form == groupForm[1]

FormCall(op, key, form, st) ==
  /\ PageReady
  /\ groupForm' = form
  /\ Install(st)
  /\ RecordForm(op, key)
  /\ UNCHANGED <<managerVars, homeError, shellVars, isTutorialActive, saveInFlight,
                 isTauri, location, now>>

\* Create Group: the form opens with no group
openGroupFormNew ==
  /\ groupForm = <<>>
  /\ FormCall("openGroupForm", Null,
              <<[group |-> <<>>, members |-> <<>>, leader |-> <<>>]>>, Snapshot)

\* the edit button of a group card: the form opens on the group
openGroupFormEdit(group) ==
  /\ groupForm = <<>>
  /\ FormCall("openGroupForm", group.id,
              <<[group |-> <<group>>, members |-> group.members, leader |-> group.leader]>>,
              Snapshot)

\* the players offered by the form: those who are no member yet
availablePlayers ==
  SelectSeq(players,
            LAMBDA p : ~\E i \in 1..Len(Form.members) : Form.members[i].ign = p.ign)

\* the form after handleAddMember(player)
AddMember(form, player) ==
  [form EXCEPT !.members = Append(@, player),
               !.leader = IF Len(form.members) = 0 THEN <<player>> ELSE @]

handleAddMember(player) ==
  /\ groupForm # <<>>
  /\ FormCall("handleAddMember", player.ign, <<AddMember(Form, player)>>, Snapshot)

\* the typed name is the ign of no player and of no member, in any case
canCreateNewPlayer(ign) ==
  /\ ~\E i \in 1..Len(players) : ToLowerCase(players[i].ign) = ToLowerCase(ign)
  /\ ~\E i \in 1..Len(Form.members) : ToLowerCase(Form.members[i].ign) = ToLowerCase(ign)

handleCreateAndAddPlayer(ign) ==
  /\ groupForm # <<>>
  /\ canCreateNewPlayer(ign)
  /\ Len(players) < MaxRefs
  /\ FormCall("handleCreateAndAddPlayer", ign,
              <<AddMember(Form, Player(ign, Undefined))>>,
              addPlayer(Snapshot, Player(ign, Undefined)))

\* a removal that leaves the leader as it is
RemoveMemberKeepingLeader(form, ign) ==
  [form EXCEPT !.members = SelectSeq(@, LAMBDA m : m.ign # ign)]

\* the form after handleRemoveMember(ign): a leader who is removed is
\* followed by the first member left, or by none
RemoveMember(form, ign) ==
  LET left == SelectSeq(form.members, LAMBDA m : m.ign # ign)
  IN  [form EXCEPT !.members = left,
                   !.leader = IF @ # <<>> /\ @[1].ign = ign
                              THEN (IF left = <<>> THEN <<>> ELSE <<Head(left)>>)
                              ELSE @]

handleRemoveMember(ign) ==
  /\ groupForm # <<>>
  /\ FormCall("handleRemoveMember", ign, <<RemoveMember(Form, ign)>>, Snapshot)

\* the crown button of a member
setLeader(member) ==
  /\ groupForm # <<>>
  /\ FormCall("setLeader", member.ign, <<[Form EXCEPT !.leader = <<member>>]>>, Snapshot)

\* the group handed to onSave
SavedGroup(form, id) ==
  [id |-> id, name |-> "saved", members |-> form.members, leader |-> form.leader]

\* Save: without members an alert; a new group goes to addGroup, which
\* draws its id, an edited one to updateGroup; the form closes
GroupFormSubmit(id) ==
  /\ groupForm # <<>>
  /\ IF Len(Form.members) = 0
     THEN /\ PageCall("handleSubmit", Null, Snapshot,
                      "Please enter a group name and add at least one member")
          /\ UNCHANGED groupForm
     ELSE IF Form.group = <<>>
     THEN /\ Len(groups) < MaxRefs
          /\ FormCall("handleSubmit", id, <<>>, addGroup(Snapshot, SavedGroup(Form, id), id))
     ELSE FormCall("handleSubmit", Form.group[1].id, <<>>,
                   updateGroup(Snapshot, Form.group[1].id,
                               SavedGroup(Form, Form.group[1].id)))

\* Cancel
onCancel ==
  /\ groupForm # <<>>
  /\ FormCall("onCancel", Null, <<>>, Snapshot)

\* the files merged on these pages: a player whose ign differs in case from
\* one of the store
RefsFiles ==
  {LedgerFile(Absent, Present(<<Player("steve", "in1")>>), Absent, Absent)}

\* the ids of the groups the shop editor offers, and the names typed in it
FormGroupIds == {"a", "b"}
OwnerNames == {"Steve", "Alex"}

InitRefs ==
  /\ audit = FALSE
  /\ isTauri = FALSE
  /\ location = "/app"
  /\ InitialState(createDemoDataWithOwners)

\* the players and groups pages without the form, the shop editor, the
\* custom item manager and the merge
NextRefs ==
  \/ \E i \in 1..Len(players), confirmed \in BOOLEAN :
       handleDeletePlayer(players[i].ign, confirmed)
  \/ \E i \in 1..Len(groups), confirmed \in BOOLEAN : handleDeleteGroup(groups[i], confirmed)
  \/ \E i \in 1..Len(customItems), confirmed \in BOOLEAN :
       handleDelete(customItems[i].id, confirmed)
  \/ \E shopId \in IdsOf(shops) \cup {Null}, ownerType \in {"individual", "group"},
        playerName \in OwnerNames, selectedGroup \in FormGroupIds,
        id \in ShopIds, t \in Clock :
       /\ shopId = Null => Len(shops) < MaxRefs
       /\ (ownerType = "individual" /\ ~KnownPlayer(playerName)) => Len(players) < MaxRefs
       /\ ShopEditorSubmit(shopId, ownerType, playerName, selectedGroup, id, t)
  \/ \E file \in RefsFiles : PageReady /\ handleFileImport(file)
  \/ \E i \in 1..MaxIncoming, r \in {"keep", "replace"} : updateCollisionResolution(i, r)
  \/ confirmImport
  \/ cancelImport

SpecRefs == InitRefs /\ [][NextRefs]_vars

\* the groups page with its form, and the delete button of the players page
NextForm ==
  \/ openGroupFormNew
  \/ \E i \in 1..Len(groups) : openGroupFormEdit(groups[i])
  \/ /\ groupForm # <<>>
     /\ \E k \in 1..Len(availablePlayers) : handleAddMember(availablePlayers[k])
  \/ \E ign \in Igns : handleCreateAndAddPlayer(ign)
  \/ /\ groupForm # <<>>
     /\ \E k \in 1..Len(Form.members) : handleRemoveMember(Form.members[k].ign)
  \/ /\ groupForm # <<>>
     /\ \E k \in 1..Len(Form.members) : setLeader(Form.members[k])
  \/ \E id \in FormGroupIds : GroupFormSubmit(id)
  \/ onCancel
  \/ \E i \in 1..Len(players), confirmed \in BOOLEAN :
       handleDeletePlayer(players[i].ign, confirmed)

SpecForm == InitRefs /\ [][NextForm]_vars

(***************************************************************************)
(* Vocabulary of the merge properties.                                     *)
(***************************************************************************)
Types == {"shop", "player", "group", "customItem"}

\* the collection of a type in a store value
CollectionOf(st, type) ==
  CASE type = "shop" -> st.shops
    [] type = "player" -> st.players
    [] type = "group" -> st.groups
    [] type = "customItem" -> st.customItems

\* the new-record queue of a type in a preview
QueueOf(p, type) ==
  CASE type = "shop" -> p.newShops
    [] type = "player" -> p.newPlayers
    [] type = "group" -> p.newGroups
    [] type = "customItem" -> p.newCustomItems

\* the decoded incoming records of a type in a file
IncomingOf(file, type) ==
  CASE type = "shop" -> IncomingShops(file)
    [] type = "player" -> IncomingPlayers(file)
    [] type = "group" -> IncomingGroups(file)
    [] type = "customItem" -> IncomingCustomItems(file)

\* the key of a record: the id, or the case-folded ign of a player
KeyOf(type, r) == IF type = "player" THEN ToLowerCase(r.ign) ELSE r.id

HasKeyIn(type, s, r) == \E i \in 1..Len(s) : KeyOf(type, s[i]) = KeyOf(type, r)

\* the collisions of a type, in the order of the list
CollisionsOfType(p, type) == SelectSeq(p.collisions, LAMBDA c : c.type = type)

\* the position of a record in a collection: its first occurrence
PositionIn(s, r) == IF \E i \in 1..Len(s) : s[i] = r
                    THEN CHOOSE i \in 1..Len(s) : s[i] = r /\ \A j \in 1..(i - 1) : s[j] # r
                    ELSE 0

\* a merge has just been committed: pre is the store before it, prevPreview
\* the preview with its resolutions
Committed == lastOp = "confirmImport"
CommittedPreview == prevPreview[1]
Replaces(type) ==
  {k \in 1..Len(CommittedPreview.collisions) :
     /\ CommittedPreview.collisions[k].type = type
     /\ CommittedPreview.collisions[k].resolution = "replace"}

\* a preview has just been built from lastFile
Previewed == lastOp = "handleFileImport" /\ importError = Null

(***************************************************************************)
(* C1. Merge default bias: a commit whose collisions all still have the    *)
(* default resolution "skip" yields, for each of the four collections,     *)
(* the pre-merge collection followed by the new records.                   *)
(***************************************************************************)
C1_DefaultBias ==
  (Committed /\ \A k \in 1..Len(CommittedPreview.collisions) :
                  CommittedPreview.collisions[k].resolution = "skip")
  => \A type \in Types :
       CollectionOf(Snapshot, type) = CollectionOf(pre, type) \o QueueOf(CommittedPreview, type)

C1_Witness ==
  /\ Committed
  /\ Len(CommittedPreview.collisions) = 2
  /\ \A k \in 1..2 : CommittedPreview.collisions[k].resolution = "skip"
  /\ Len(pre.shops) = 1 /\ Len(pre.players) = 1
  /\ Len(CommittedPreview.newPlayers) = 0
  /\ Len(shops) = 1 /\ Len(players) = 1

(***************************************************************************)
(* C2. Merge conservation: whatever the resolutions, the size of each      *)
(* committed collection is the size before plus the number of new records. *)
(***************************************************************************)
C2_Conservation ==
  Committed
  => \A type \in Types :
       Len(CollectionOf(Snapshot, type))
         = Len(CollectionOf(pre, type)) + Len(QueueOf(CommittedPreview, type))

C2_Witness ==
  /\ Committed
  /\ Replaces("player") # {}
  /\ Len(CommittedPreview.newPlayers) = 1
  /\ Len(pre.players) = 1
  /\ Len(players) = 2

(***************************************************************************)
(* C3. For every assignment of resolutions, a record of the store before   *)
(* the merge is still present, unchanged, in the committed collection      *)
(* unless a collision naming it as existing has resolution "replace".      *)
(***************************************************************************)
C3_KeptUnlessReplaced ==
  Committed
  => \A type \in Types :
       \A i \in 1..Len(CollectionOf(pre, type)) :
         \/ \E j \in 1..Len(CollectionOf(Snapshot, type)) :
              CollectionOf(Snapshot, type)[j] = CollectionOf(pre, type)[i]
         \/ \E k \in Replaces(type) :
              CommittedPreview.collisions[k].existing = CollectionOf(pre, type)[i]

\* the commit that loses a record no collision names: two players with the
\* ign "Steve", incoming "steve" and "Steve" both resolved "replace"
C3_Witness ==
  /\ Committed
  /\ pre.players = <<Player("Steve", "local"), Player("Steve", "other")>>
  /\ Len(CommittedPreview.collisions) = 2
  /\ \A k \in 1..2 : /\ CommittedPreview.collisions[k].existing = Player("Steve", "local")
                      /\ CommittedPreview.collisions[k].resolution = "replace"
  /\ players = <<Player("steve", "in1"), Player("Steve", "in2")>>

(***************************************************************************)
(* C4. Every record classified as new is in its collection after the       *)
(* commit (after the records of the store, in the order of the queue),     *)
(* whatever the resolutions.                                               *)
(***************************************************************************)
C4_NewRecordsKept ==
  Committed
  => \A type \in Types :
       \A j \in 1..Len(QueueOf(CommittedPreview, type)) :
         /\ Len(CollectionOf(pre, type)) + j <= Len(CollectionOf(Snapshot, type))
         /\ CollectionOf(Snapshot, type)[Len(CollectionOf(pre, type)) + j]
              = QueueOf(CommittedPreview, type)[j]

C4_Witness ==
  /\ Committed
  /\ Replaces("group") # {}
  /\ Len(CommittedPreview.newGroups) = 0
  /\ Len(CommittedPreview.newPlayers) = 1
  /\ players[Len(players)] = CommittedPreview.newPlayers[1]

(***************************************************************************)
(* C5. Collision reporting is exhaustive and exact: each incoming record   *)
(* gives exactly one outcome, a collision (with the default resolution and *)
(* a same-key existing record) when the current collection holds its key,  *)
(* a new record otherwise; the key is the id, and the case-folded ign for  *)
(* players.  Incoming [steve, Alex] onto [Steve] is one collision and one  *)
(* new record, and its default commit leaves 2 players.                    *)
(***************************************************************************)
C5_ExactOutcomes(type) ==
  LET incoming == IncomingOf(lastFile, type)
      current == CollectionOf(pre, type)
      cols == CollisionsOfType(mergePreview[1], type)
      hit == SelectSeq(incoming, LAMBDA r : HasKeyIn(type, current, r))
      miss == SelectSeq(incoming, LAMBDA r : ~HasKeyIn(type, current, r))
  IN /\ QueueOf(mergePreview[1], type) = miss
     /\ Len(cols) = Len(hit)
     /\ \A k \in 1..Len(cols) :
          /\ cols[k].incoming = hit[k]
          /\ cols[k].resolution = "skip"
          /\ \E i \in 1..Len(current) : current[i] = cols[k].existing
          /\ KeyOf(type, cols[k].existing) = KeyOf(type, hit[k])

C5_ScenarioC ==
  (/\ Committed
   /\ pre.players = <<Player("Steve", "local")>>
   /\ CommittedPreview.newPlayers = <<Player("Alex", "in1")>>
   /\ Len(CommittedPreview.collisions) = 1
   /\ CommittedPreview.collisions[1].incoming = Player("steve", "in1")
   /\ CommittedPreview.collisions[1].resolution = "skip")
  => players = <<Player("Steve", "local"), Player("Alex", "in1")>>

C5_CollisionsExact ==
  /\ Previewed =>
       /\ \A type \in Types : C5_ExactOutcomes(type)
       /\ Len(mergePreview[1].collisions)
            = Len(CollisionsOfType(mergePreview[1], "shop"))
              + Len(CollisionsOfType(mergePreview[1], "player"))
              + Len(CollisionsOfType(mergePreview[1], "group"))
              + Len(CollisionsOfType(mergePreview[1], "customItem"))
  /\ C5_ScenarioC

C5_Witness ==
  /\ Previewed
  /\ pre.players = <<Player("Steve", "local")>>
  /\ IncomingPlayers(lastFile) = <<Player("steve", "in1"), Player("Alex", "in1")>>
  /\ Len(mergePreview[1].collisions) = 1
  /\ mergePreview[1].collisions[1].existing = Player("Steve", "local")
  /\ mergePreview[1].newPlayers = <<Player("Alex", "in1")>>

(***************************************************************************)
(* C6. Replace substitutes in place.  As stated: for every collision with  *)
(* resolution "replace", the committed collection holds the incoming       *)
(* record at the position of the existing one, every position that no      *)
(* replace names keeps its record, and the new records follow.             *)
(***************************************************************************)
C6_Frame(type) ==
  /\ Len(CollectionOf(Snapshot, type))
       = Len(CollectionOf(pre, type)) + Len(QueueOf(CommittedPreview, type))
  /\ \A i \in 1..Len(CollectionOf(pre, type)) :
       (\A k \in Replaces(type) :
          PositionIn(CollectionOf(pre, type), CommittedPreview.collisions[k].existing) # i)
       => CollectionOf(Snapshot, type)[i] = CollectionOf(pre, type)[i]
  /\ \A j \in 1..Len(QueueOf(CommittedPreview, type)) :
       CollectionOf(Snapshot, type)[Len(CollectionOf(pre, type)) + j]
         = QueueOf(CommittedPreview, type)[j]

C6_ReplaceInPlace ==
  Committed
  => \A type \in Types :
       /\ C6_Frame(type)
       /\ \A k \in Replaces(type) :
            LET c == CommittedPreview.collisions[k]
                idx == PositionIn(CollectionOf(pre, type), c.existing)
            IN idx # 0 /\ CollectionOf(Snapshot, type)[idx] = c.incoming

(***************************************************************************)
(* C6 as amended: the same when every existing record is named by at most  *)
(* one replace.  When several replaces name one existing record: a shop,   *)
(* group or custom item position holds the incoming record of the last of  *)
(* them and the rest of the collection is as above; a player position      *)
(* holds the incoming record of one of them, the size is conserved and the *)
(* new records follow.                                                     *)
(***************************************************************************)
C6_Naming(type, i) ==
  {k \in Replaces(type) :
     PositionIn(CollectionOf(pre, type), CommittedPreview.collisions[k].existing) = i}

C6_Tail(type) ==
  /\ Len(CollectionOf(Snapshot, type))
       = Len(CollectionOf(pre, type)) + Len(QueueOf(CommittedPreview, type))
  /\ \A j \in 1..Len(QueueOf(CommittedPreview, type)) :
       CollectionOf(Snapshot, type)[Len(CollectionOf(pre, type)) + j]
         = QueueOf(CommittedPreview, type)[j]

C6_ReplaceInPlaceAmended ==
  Committed
  => \A type \in Types :
       LET single == \A i \in 1..Len(CollectionOf(pre, type)) :
                       Cardinality(C6_Naming(type, i)) <= 1
       IN /\ C6_Tail(type)
          /\ \A k \in Replaces(type) :
               PositionIn(CollectionOf(pre, type), CommittedPreview.collisions[k].existing) # 0
          /\ (single \/ type # "player") => C6_Frame(type)
          /\ \A i \in 1..Len(CollectionOf(pre, type)) :
               LET ks == C6_Naming(type, i)
               IN ks # {} =>
                    IF type = "player"
                    THEN \E k \in ks :
                           CollectionOf(Snapshot, type)[i] = CommittedPreview.collisions[k].incoming
                    ELSE CollectionOf(Snapshot, type)[i]
                           = CommittedPreview.collisions[CHOOSE k \in ks : \A m \in ks : m <= k].incoming

\* a case-only player collision replaced in place, behind another player
C6_Witness ==
  /\ Committed
  /\ pre.players = <<Player("Alex", "local"), Player("Steve", "local")>>
  /\ Cardinality(Replaces("player")) = 1
  /\ players = <<Player("Alex", "local"), Player("steve", "in1")>>

(***************************************************************************)
(* C7. No cross-collection leakage: a collection none of whose own         *)
(* collisions is resolved "replace" is, after the commit, its records      *)
(* before followed by its new records, whatever the collisions of the      *)
(* other types and their resolutions.                                      *)
(***************************************************************************)
C7_NoLeakage ==
  Committed
  => \A type \in Types :
       Replaces(type) = {}
       => CollectionOf(Snapshot, type)
            = CollectionOf(pre, type) \o QueueOf(CommittedPreview, type)

C7_Witness ==
  /\ Committed
  /\ Replaces("group") # {}
  /\ Replaces("shop") = {}
  /\ Len(CollisionsOfType(CommittedPreview, "shop")) = 1
  /\ pre.shops[1].id = pre.groups[1].id
  /\ shops = pre.shops
  /\ groups # pre.groups

(***************************************************************************)
(* C8. Import-level failure is atomic: on text that is not JSON, or JSON   *)
(* without version or without data, handleFileImport, handleFileOpen and   *)
(* handleOpenLedger report an error, leave no merge preview, and leave the *)
(* four collections, the selection, ledgerName, ledgerPath and             *)
(* hasUnsavedChanges as they were.                                         *)
(***************************************************************************)
C8_Malformed(file) == ~file.json \/ file.version = "" \/ ~file.hasData

C8_ImportFailureAtomic ==
  /\ (lastOp = "handleFileImport" /\ C8_Malformed(lastFile))
       => /\ Snapshot = pre
          /\ mergePreview = <<>>
          /\ importError = ParseError /\ showImportDialog
  /\ (lastOp = "handleFileOpen" /\ C8_Malformed(lastFile))
       => /\ Snapshot = pre
          /\ mergePreview = <<>>
          /\ alertMessage = OpenError
  /\ (lastOp = "handleOpenLedger" /\ C8_Malformed(lastFile))
       => /\ Snapshot = pre
          /\ mergePreview = <<>>
          /\ homeError \in {"SyntaxError", "Invalid ledger file format"}
          /\ location = "/"

\* a ledger without version is clicked on the home page over a store that
\* holds records and unsaved changes
C8_Witness ==
  /\ lastOp = "handleOpenLedger"
  /\ lastFile.json /\ lastFile.version = "" /\ lastFile.hasData
  /\ Len(players) > 0
  /\ hasUnsavedChanges
  /\ ledgerPath = TutorialPath
  /\ homeError = "Invalid ledger file format"

(***************************************************************************)
(* C9. Every mutating store operation (the fifteen CRUD operations and     *)
(* importShops) that changes one of the four collections leaves            *)
(* hasUnsavedChanges = true.                                               *)
(***************************************************************************)
C9_Mutating ==
  {"addShop", "updateShop", "deleteShop", "addTrade", "updateTrade", "deleteTrade",
   "addPlayer", "updatePlayer", "deletePlayer", "addGroup", "updateGroup", "deleteGroup",
   "addCustomItem", "updateCustomItem", "deleteCustomItem", "importShops"}

C9_MutationsMarkDirty ==
  (/\ lastOp \in C9_Mutating
   /\ <<shops, players, groups, customItems>>
        # <<pre.shops, pre.players, pre.groups, pre.customItems>>)
  => hasUnsavedChanges

\* importShops has appended a shop to a clean store, which is still clean
C9_Witness ==
  /\ lastOp = "importShops"
  /\ ~pre.hasUnsavedChanges
  /\ Len(shops) = Len(pre.shops) + 1
  /\ ~hasUnsavedChanges

(***************************************************************************)
(* C10. As stated: hasUnsavedChanges goes from true to false only by a     *)
(* save (handleSave in the browser build, the resolution of saveLedger in  *)
(* the desktop build), by clearAllData (confirmNewLedger, handleCreateNew) *)
(* or by loadLedgerData on the non-merge path (handleFileOpen,             *)
(* handleOpenLedger).                                                      *)
(***************************************************************************)
C10_Cleared == pre.hasUnsavedChanges /\ ~hasUnsavedChanges

C10_SaveClearLoad ==
  {"handleSave", "saveLedgerResolves", "confirmNewLedger", "handleCreateNew",
   "handleFileOpen", "handleOpenLedger"}

C10_ClearedOnlyBySaveClearLoad == C10_Cleared => lastOp \in C10_SaveClearLoad

(***************************************************************************)
(* C10 as amended: ... or by one of the three handlers that call           *)
(* setHasUnsavedChanges(false) themselves: Discard of the unsaved-changes  *)
(* dialog, the timer of Save & Exit, and the exit of the tutorial.         *)
(* Navigation, cancelling a dialog, the calls of the pages and the commit  *)
(* of a merge do not clear the flag.                                       *)
(***************************************************************************)
C10_ClearedOnlyByListed ==
  C10_Cleared =>
    lastOp \in C10_SaveClearLoad
                 \cup {"handleDiscardChanges", "saveExitTimerFires", "handleExitTutorial"}

\* Discard has cleared the flag of a ledger with unsaved changes
C10_Witness ==
  /\ lastOp = "handleDiscardChanges"
  /\ C10_Cleared
  /\ location = "/"

(***************************************************************************)
(* C11. hasUnsavedChanges is cleared by a save only when the save          *)
(* succeeded: when saveLedger rejects, the flag keeps the value true, for  *)
(* the save of the menu and for the save requested by Save & Exit, whose   *)
(* pending navigation then does not treat the ledger as saved.             *)
(***************************************************************************)
\* the rejection itself leaves the flag alone
C11_RejectKeepsFlag ==
  lastOp = "saveLedgerRejects" => hasUnsavedChanges = pre.hasUnsavedChanges

\* the timer of a Save & Exit whose save was rejected leaves the flag alone
C11_ExitKeepsFlagAfterReject ==
  (lastOp = "saveExitTimerFires" /\ exitSave = "rejected" /\ pre.hasUnsavedChanges)
  => hasUnsavedChanges

C11_ClearedOnlyBySuccessfulSave == C11_RejectKeepsFlag /\ C11_ExitKeepsFlagAfterReject

\* the save of Save & Exit was rejected; the timer has cleared the flag and
\* left for the home page
C11_Witness ==
  /\ lastOp = "saveExitTimerFires"
  /\ exitSave = "rejected"
  /\ pre.hasUnsavedChanges
  /\ ~hasUnsavedChanges
  /\ location = "/"
  /\ synced = <<>>

(***************************************************************************)
(* C12. Whenever hasUnsavedChanges is false and the ledger has been saved  *)
(* or loaded, the four collections equal the content last written to or    *)
(* read from the file; a store mutation made while saveLedger is awaited   *)
(* does not end with the flag false and the mutation unsaved.  Stated for  *)
(* the ledger open on the pages.                                           *)
(***************************************************************************)
C12_CleanMeansSynced ==
  (location = "/app" /\ ~hasUnsavedChanges /\ synced # <<>>)
  => Content(Snapshot) = synced[1]

\* saveLedger has resolved after a shop was added during the await: the flag
\* is false and the shop is in no file
C12_Witness ==
  /\ lastOp = "saveLedgerResolves"
  /\ location = "/app"
  /\ pre.hasUnsavedChanges
  /\ ~hasUnsavedChanges
  /\ synced # <<>>
  /\ Len(shops) = Len(synced[1].shops) + 1

(***************************************************************************)
(* C13. After confirmImport has committed a merge, hasUnsavedChanges is    *)
(* true, also when the preview held no new record and no collision was     *)
(* resolved as replace.                                                    *)
(***************************************************************************)
C13_CommitMarksDirty == Committed => hasUnsavedChanges

\* a commit without new records and without a replace, onto a clean store
C13_Witness ==
  /\ Committed
  /\ ~pre.hasUnsavedChanges
  /\ \A type \in Types : Replaces(type) = {}
  /\ Content(Snapshot) = Content(pre)
  /\ Len(CommittedPreview.collisions) > 0
  /\ hasUnsavedChanges

(***************************************************************************)
(* C14. loadLedgerData(data, name, path) replaces all four collections     *)
(* with those of data in one transition, sets selectedShopId to null and   *)
(* hasUnsavedChanges to false, and changes ledgerName and ledgerPath only  *)
(* when the argument is supplied.                                          *)
(***************************************************************************)
\* the store loadLedgerData yields from the present one, for every file read
\* and every way of supplying name and path
C14_LoadFrame ==
  \A file \in {f \in AppFiles : ~DecodeThrows(f)},
     name \in {Undefined, "Main"}, path \in {Undefined, Null, MainPath} :
    LET st == loadLedgerData(Snapshot, ProcessedData(file), name, path)
    IN /\ Content(st) = ProcessedData(file)
       /\ st.selectedShopId = Null
       /\ ~st.hasUnsavedChanges
       /\ st.ledgerName = IF name = Undefined THEN ledgerName ELSE name
       /\ st.ledgerPath = IF path = Undefined THEN ledgerPath ELSE path

\* the store its callers leave: handleOpenLedger supplies name and path,
\* handleFileOpen and confirmImport neither (handleFileOpen sets the name
\* afterwards, confirmImport the flag)
C14_Opened == lastOp = "handleOpenLedger" /\ homeError = Null
C14_FileOpened == lastOp = "handleFileOpen" /\ alertMessage = Null

C14_Callers ==
  /\ C14_Opened =>
       /\ Content(Snapshot) = ProcessedData(lastFile)
       /\ selectedShopId = Null
       /\ ~hasUnsavedChanges
       /\ \E ledger \in LedgerList :
            ledgerName = NameOr(lastFile, ledger.name) /\ ledgerPath = ledger.path
  /\ C14_FileOpened =>
       /\ Content(Snapshot) = ProcessedData(lastFile)
       /\ selectedShopId = Null
       /\ ~hasUnsavedChanges
       /\ ledgerPath = pre.ledgerPath
  /\ Committed =>
       /\ selectedShopId = Null
       /\ ledgerName = pre.ledgerName
       /\ ledgerPath = pre.ledgerPath

C14_LoadReplacesAll == C14_LoadFrame /\ C14_Callers

\* a file was opened over a dirty ledger with a shop selected and a path
C14_Witness ==
  /\ C14_FileOpened
  /\ pre.selectedShopId # Null
  /\ pre.hasUnsavedChanges
  /\ Content(pre) # Content(Snapshot)
  /\ Len(players) > 0
  /\ selectedShopId = Null

(***************************************************************************)
(* C15. As stated: creating a new ledger (confirmNewLedger,                *)
(* handleCreateNew), loading a ledger and confirming a merge each end with *)
(* hasUnsavedChanges = false; the session becomes dirty only through a     *)
(* later mutation.                                                         *)
(***************************************************************************)
C15_Created == lastOp \in {"confirmNewLedger", "handleCreateNew"}
C15_Loaded == C14_Opened \/ C14_FileOpened
C15_BecameDirty == ~pre.hasUnsavedChanges /\ hasUnsavedChanges

C15_NewLoadMergeEndClean ==
  /\ (C15_Created \/ C15_Loaded \/ Committed) => ~hasUnsavedChanges
  /\ C15_BecameDirty => lastOp \in C9_Mutating

(***************************************************************************)
(* C15 as amended: loading a ledger ends with hasUnsavedChanges = false;   *)
(* creating a new ledger and confirming a merge end with                   *)
(* hasUnsavedChanges = true; a clean session becomes dirty only through a  *)
(* store mutation, a merge commit or the creation of a new ledger.         *)
(***************************************************************************)
C15_LoadEndsCleanNewAndMergeDirty ==
  /\ C15_Loaded => ~hasUnsavedChanges
  /\ (C15_Created \/ Committed) => hasUnsavedChanges
  /\ C15_BecameDirty =>
       lastOp \in C9_Mutating \cup {"confirmNewLedger", "handleCreateNew", "confirmImport"}

\* a new ledger was created on the home page: it is open, empty and dirty
C15_Witness ==
  /\ lastOp = "handleCreateNew"
  /\ location = "/app"
  /\ Size(Snapshot) = 0
  /\ C15_BecameDirty

(***************************************************************************)
(* C16. Id uniqueness: addShop, addGroup and addCustomItem, which draw     *)
(* their ids by generateId, leave the ids within shops, within groups and  *)
(* within customItems pairwise distinct.                                   *)
(***************************************************************************)
C16_Distinct(s) == \A i, j \in 1..Len(s) : s[i].id = s[j].id => i = j

C16_AllDistinct(st) ==
  C16_Distinct(st.shops) /\ C16_Distinct(st.groups) /\ C16_Distinct(st.customItems)

C16_AddsKeepIdsDistinct ==
  (lastOp \in {"addShop", "addGroup", "addCustomItem"} /\ C16_AllDistinct(pre))
  => C16_AllDistinct(Snapshot)

\* addShop has drawn the id of a shop of the store
C16_Witness ==
  /\ lastOp = "addShop"
  /\ C16_AllDistinct(pre)
  /\ Len(shops) = 2
  /\ shops[1].id = shops[2].id

(***************************************************************************)
(* C17. Player uniqueness is case-insensitive: addPlayer, updatePlayer,    *)
(* deletePlayer and the commit of a merge, applied to a store with no two  *)
(* players equal up to letter case, leave no two players whose ign are     *)
(* equal after case folding.                                               *)
(***************************************************************************)
C17_FoldedDistinct(s) ==
  \A i, j \in 1..Len(s) : ToLowerCase(s[i].ign) = ToLowerCase(s[j].ign) => i = j

C17_PlayersStayFoldedDistinct ==
  (/\ lastOp \in {"addPlayer", "updatePlayer", "deletePlayer", "confirmImport"}
   /\ C17_FoldedDistinct(pre.players))
  => C17_FoldedDistinct(players)

\* addPlayer has added steve to a store that holds Steve
C17_Witness ==
  /\ lastOp = "addPlayer"
  /\ lastKey = "steve"
  /\ C17_FoldedDistinct(pre.players)
  /\ \E i, j \in 1..Len(players) : players[i].ign = "Steve" /\ players[j].ign = "steve"

(***************************************************************************)
(* C18. Update and delete operations on a key that is not in the store     *)
(* (updateShop, deleteShop, updateGroup, deleteGroup, updatePlayer,        *)
(* deletePlayer, updateCustomItem, deleteCustomItem, and the trade         *)
(* operations with an unknown shop id) are silent no-ops: the store,       *)
(* hasUnsavedChanges and the selection included, is as before the call.    *)
(***************************************************************************)
C18_IgnsOf(s) == {s[i].ign : i \in 1..Len(s)}

\* the last call was one of those operations, with a key the store lacked
C18_UnknownKey ==
  \/ /\ lastOp \in {"updateShop", "deleteShop", "addTrade", "updateTrade", "deleteTrade"}
     /\ lastKey \notin IdsOf(pre.shops)
  \/ /\ lastOp \in {"updateGroup", "deleteGroup"}
     /\ lastKey \notin IdsOf(pre.groups)
  \/ /\ lastOp \in {"updatePlayer", "deletePlayer"}
     /\ lastKey \notin C18_IgnsOf(pre.players)
  \/ /\ lastOp \in {"updateCustomItem", "deleteCustomItem"}
     /\ lastKey \notin IdsOf(pre.customItems)

C18_DataUntouched ==
  C18_UnknownKey =>
    /\ Content(Snapshot) = Content(pre)
    /\ selectedShopId = pre.selectedShopId
    /\ ledgerName = pre.ledgerName
    /\ ledgerPath = pre.ledgerPath
    /\ alertMessage = Null

C18_FlagUntouched == C18_UnknownKey => hasUnsavedChanges = pre.hasUnsavedChanges

C18_UnknownKeyIsNoOp == C18_DataUntouched /\ C18_FlagUntouched

\* updateShop was called on a clean store for a shop it does not hold: the
\* shops are as before and the store is dirty
C18_Witness ==
  /\ lastOp = "updateShop"
  /\ C18_UnknownKey
  /\ Len(shops) > 0
  /\ shops = pre.shops
  /\ ~pre.hasUnsavedChanges
  /\ hasUnsavedChanges

(***************************************************************************)
(* C19. A shop's identifier is immutable after creation: updateShop with   *)
(* any Partial<Shop>, which may carry an id, addTrade, updateTrade and     *)
(* deleteTrade leave the id of every shop as it was, so that getShop(id)   *)
(* keeps returning the shop.                                               *)
(***************************************************************************)
C19_ShopOp == lastOp \in {"updateShop", "addTrade", "updateTrade", "deleteTrade"}

C19_ShopIdsImmutable ==
  C19_ShopOp =>
    /\ Len(shops) = Len(pre.shops)
    /\ \A i \in 1..Len(shops) : shops[i].id = pre.shops[i].id
    /\ \A id \in IdsOf(pre.shops) : getShop(Snapshot, id) # <<>>

\* updateShop("a", {id: "b"}) has renamed the only shop: getShop("a") finds
\* nothing
C19_Witness ==
  /\ lastOp = "updateShop"
  /\ lastKey = "a"
  /\ Len(pre.shops) = 1
  /\ getShop(pre, "a") # <<>>
  /\ getShop(Snapshot, "a") = <<>>
  /\ getShop(Snapshot, "b") # <<>>

(***************************************************************************)
(* C20. As stated: for every ledger state, encoding it (generateLedgerData *)
(* and JSON serialisation) and decoding the result (the date-reviving      *)
(* decode of handleFileOpen and handleOpenLedger) reproduces every shop,   *)
(* trade, player, group and custom item with equal field values, the date  *)
(* fields included.                                                        *)
(***************************************************************************)
C20_Decoded == ProcessedData(generateLedgerData(Snapshot, ledgerName))

C20_RoundTrip ==
  /\ ~DecodeThrows(generateLedgerData(Snapshot, ledgerName))
  /\ C20_Decoded = Content(Snapshot)

(***************************************************************************)
(* C20 as amended: ... for every ledger state whose date fields are valid  *)
(* dates.  An Invalid Date, which the decode yields for a date field the   *)
(* file lacks, is written as null and read back as the epoch.              *)
(***************************************************************************)
C20_DatesOf(st) ==
  UNION {{st.shops[i].createdAt, st.shops[i].updatedAt}
           \cup {st.shops[i].trades[k].lastUpdated : k \in 1..Len(st.shops[i].trades)} :
         i \in 1..Len(st.shops)}
  \cup {st.customItems[i].createdAt : i \in 1..Len(st.customItems)}

C20_RoundTripOfValidDates ==
  /\ InvalidDate \notin C20_DatesOf(Snapshot) => C20_RoundTrip
  /\ \A i \in 1..Len(shops) :
       shops[i].createdAt = InvalidDate => C20_Decoded.shops[i].createdAt = 0

\* a ledger with a shop, its trade and a player was opened; its dates are
\* not the epoch
C20_Witness ==
  /\ C14_Opened
  /\ Len(shops) > 0
  /\ Len(shops[1].trades) > 0
  /\ Len(players) > 0
  /\ C20_DatesOf(Snapshot) = {1}
  /\ C20_RoundTrip

(***************************************************************************)
(* C29: starting from startTutorial, repeated nextStep calls visit the     *)
(* entries of TUTORIAL_STEPS in list order, each exactly once, with the    *)
(* phase of the visited step, and the nextStep on the last step, finale,   *)
(* ends the tutorial; completedSteps never holds a step id twice on the    *)
(* way.  run counts the nextStep calls since startTutorial.                *)
(***************************************************************************)
C29_Visited(k) == [i \in 1..k |-> TUTORIAL_STEPS[i].id]

C29_StepsDistinct ==
  \A i, j \in 1..Len(TUTORIAL_STEPS) :
    i # j => TUTORIAL_STEPS[i].id # TUTORIAL_STEPS[j].id

C29_RunVisitsStepsInOrder ==
  /\ C29_StepsDistinct
  /\ TUTORIAL_STEPS[Len(TUTORIAL_STEPS)].id = "finale"
  /\ run \in 0..(Len(TUTORIAL_STEPS) - 1) =>
       /\ isTutorialActive
       /\ currentStepId = TUTORIAL_STEPS[run + 1].id
       /\ phase = TUTORIAL_STEPS[run + 1].phase
       /\ completedSteps = C29_Visited(run)
  /\ run = Len(TUTORIAL_STEPS) =>
       /\ ~isTutorialActive
       /\ currentStepId = Null
       /\ completedSteps = <<>>
       /\ preTutorial.currentStepId = "finale"

\* the nextStep on finale has just ended a tutorial run
C29_Witness ==
  /\ lastOp = "nextStep"
  /\ run = Len(TUTORIAL_STEPS)
  /\ ~isTutorialActive

(***************************************************************************)
(* C30: in every state reached through startTutorial, nextStep, goToStep,  *)
(* completeStep, setPhase and endTutorial, currentStepId is non-null       *)
(* exactly when isActive is true, and a non-null currentStepId is the id   *)
(* of an entry of TUTORIAL_STEPS.                                          *)
(***************************************************************************)
C30_CurrentIsStep == currentStepId # Null => StepIndex(currentStepId) # 0

C30_CurrentIffActive ==
  /\ currentStepId # Null <=> isTutorialActive
  /\ C30_CurrentIsStep

\* the part that holds: an active tutorial has a current step of the list
C30_ActiveHasStep ==
  /\ isTutorialActive => currentStepId # Null
  /\ C30_CurrentIsStep

\* goToStep was called with the id of a step while no tutorial was active
C30_Witness ==
  /\ lastOp = "goToStep"
  /\ ~preTutorial.isActive
  /\ StepIndex(lastKey) # 0
  /\ currentStepId = lastKey

(***************************************************************************)
(* C23: deleteShop(id) removes exactly the shops with that id and leaves   *)
(* every other shop and the other three collections unchanged; the         *)
(* selection becomes null if and only if it was equal to id and keeps its  *)
(* value otherwise, so it never names a shop that deleteShop has removed.  *)
(***************************************************************************)
C23_Remaining == SelectSeq(pre.shops, LAMBDA shop : shop.id # lastKey)

C23_DeleteShopFrame ==
  lastOp = "deleteShop" =>
    /\ shops = C23_Remaining
    /\ players = pre.players
    /\ groups = pre.groups
    /\ customItems = pre.customItems
    /\ pre.selectedShopId = lastKey => selectedShopId = Null
    /\ pre.selectedShopId # lastKey => selectedShopId = pre.selectedShopId
    /\ selectedShopId \notin IdsOf(pre.shops) \ IdsOf(shops)

\* the selected shop was deleted while another shop stayed
C23_Witness ==
  /\ lastOp = "deleteShop"
  /\ pre.selectedShopId = lastKey
  /\ lastKey \in IdsOf(pre.shops)
  /\ selectedShopId = Null
  /\ shops # <<>>

(***************************************************************************)
(* C24: addShop sets createdAt = updatedAt = the current time, appends the *)
(* shop at the end of the collection and returns an id for which getShop   *)
(* returns that shop; under a non-decreasing clock every later updateShop, *)
(* addTrade, updateTrade and deleteTrade keeps updatedAt >= createdAt.     *)
(***************************************************************************)
C24_Added == shops[Len(shops)]

\* the part about the added shop, without getShop
C24_AddShopAppends ==
  lastOp = "addShop" =>
    /\ Len(shops) = Len(pre.shops) + 1
    /\ SubSeq(shops, 1, Len(pre.shops)) = pre.shops
    /\ C24_Added.id = lastKey
    /\ C24_Added.createdAt = now
    /\ C24_Added.updatedAt = now

C24_TimestampsOrdered == \A i \in 1..Len(shops) : shops[i].updatedAt >= shops[i].createdAt

C24_AddShopTimestamps ==
  /\ C24_AddShopAppends
  /\ lastOp = "addShop" => getShop(Snapshot, lastKey) = <<C24_Added>>
  /\ C24_TimestampsOrdered

\* a shop was added under an id no shop had, later than the shops before it
C24_Witness ==
  /\ lastOp = "addShop"
  /\ lastKey \notin IdsOf(pre.shops)
  /\ pre.shops # <<>>
  /\ getShop(Snapshot, lastKey) = <<C24_Added>>
  /\ C24_Added.createdAt > pre.shops[1].createdAt

(***************************************************************************)
(* C25: when the decoded payload has version and data but data.shops,      *)
(* data.players, data.groups or data.customItems is absent or empty, the   *)
(* merge preview has zero new records and zero collisions for that type,   *)
(* no error is raised, and a commit leaves that store collection           *)
(* unchanged.                                                              *)
(***************************************************************************)
\* the array of a type in the file: none, or one
C25_FileArray(file, type) ==
  CASE type = "shop" -> file.shops
    [] type = "player" -> file.players
    [] type = "group" -> file.groups
    [] type = "customItem" -> file.customItems

C25_Missing(file, type) ==
  C25_FileArray(file, type) = Absent \/ C25_FileArray(file, type) = Present(<<>>)

\* the payload has version and data, and the shops it lists have their trades
C25_Decodes(file) ==
  /\ file.json /\ file.version # "" /\ file.hasData
  /\ \A i \in 1..Len(OrEmpty(file.shops)) : OrEmpty(file.shops)[i].trades # Absent

C25_NothingOf(preview, type) ==
  /\ QueueOf(preview, type) = <<>>
  /\ \A k \in 1..Len(preview.collisions) : preview.collisions[k].type # type

C25_MissingCollectionsTolerated ==
  /\ (lastOp = "handleFileImport" /\ C25_Decodes(lastFile)
        /\ \E type \in Types : C25_Missing(lastFile, type))
       => /\ importError = Null
          /\ mergePreview # <<>>
          /\ \A type \in Types :
               C25_Missing(lastFile, type) => C25_NothingOf(mergePreview[1], type)
  /\ Committed
       => \A type \in Types :
            C25_NothingOf(CommittedPreview, type)
              => CollectionOf(Snapshot, type) = CollectionOf(pre, type)

\* a file with groups and custom items only was previewed over a store with
\* players
C25_PreviewWitness ==
  /\ Previewed
  /\ lastFile.shops = Absent /\ lastFile.players = Absent
  /\ lastFile.groups # Absent
  /\ Len(players) > 0
  /\ C25_NothingOf(mergePreview[1], "player")

\* a preview with nothing for the players but something for the groups was
\* committed over a store with players
C25_Witness ==
  /\ Committed
  /\ C25_NothingOf(CommittedPreview, "player")
  /\ ~C25_NothingOf(CommittedPreview, "group")
  /\ Len(pre.players) > 0
  /\ players = pre.players

(***************************************************************************)
(* C28: if the current collections and the incoming collections each have  *)
(* pairwise-distinct keys (ids for shops, groups and custom items,         *)
(* case-folded ign for players), then for every assignment of resolutions  *)
(* the committed collections also have pairwise-distinct keys.             *)
(***************************************************************************)
C28_KeysDistinct(c) ==
  /\ C16_Distinct(c.shops)
  /\ C17_FoldedDistinct(c.players)
  /\ C16_Distinct(c.groups)
  /\ C16_Distinct(c.customItems)

\* the incoming records of a type, as the preview holds them: the new ones
\* and the incoming sides of the collisions
C28_IncomingOf(preview, type) ==
  QueueOf(preview, type)
    \o MapSeq(SelectSeq(preview.collisions, LAMBDA c : c.type = type),
              LAMBDA c : c.incoming)

C28_Incoming(preview) ==
  [shops |-> C28_IncomingOf(preview, "shop"),
   players |-> C28_IncomingOf(preview, "player"),
   groups |-> C28_IncomingOf(preview, "group"),
   customItems |-> C28_IncomingOf(preview, "customItem")]

C28_MergeKeepsKeysDistinct ==
  (Committed /\ C28_KeysDistinct(pre) /\ C28_KeysDistinct(C28_Incoming(CommittedPreview)))
  => C28_KeysDistinct(Snapshot)

\* a player was replaced by one whose ign differs in case while another
\* incoming player was new
C28_Witness ==
  /\ Committed
  /\ C28_KeysDistinct(pre)
  /\ C28_KeysDistinct(C28_Incoming(CommittedPreview))
  /\ Replaces("player") # {}
  /\ \E k \in Replaces("player") :
       CommittedPreview.collisions[k].existing.ign
         # CommittedPreview.collisions[k].incoming.ign
  /\ Len(CommittedPreview.newPlayers) = 1

(***************************************************************************)
(* C21: deleting a player through the application (handleDeletePlayer ->   *)
(* deletePlayer) succeeds only if no shop has that player as owner and no  *)
(* group has that player as member or leader; otherwise the players        *)
(* collection is unchanged.                                                *)
(***************************************************************************)
C21_OwnsShop(st, ign) ==
  \E i \in 1..Len(st.shops) :
    /\ st.shops[i].owner.type = "individual"
    /\ st.shops[i].owner.player # <<>>
    /\ st.shops[i].owner.player[1].ign = ign

C21_InGroup(st, ign) ==
  \E i \in 1..Len(st.groups) :
    \/ \E k \in 1..Len(st.groups[i].members) : st.groups[i].members[k].ign = ign
    \/ st.groups[i].leader # <<>> /\ st.groups[i].leader[1].ign = ign

C21_Deleted == lastOp = "handleDeletePlayer" /\ players # pre.players

C21_NoDeleteWhileReferenced ==
  C21_Deleted => ~C21_OwnsShop(pre, lastKey) /\ ~C21_InGroup(pre, lastKey)

\* the part that holds: the owner of a shop is not deleted
C21_NoDeleteWhileOwner ==
  /\ C21_Deleted => ~C21_OwnsShop(pre, lastKey)
  /\ (lastOp = "handleDeletePlayer" /\ C21_OwnsShop(pre, lastKey))
       => players = pre.players /\ alertMessage # Null

\* the delete button of the owner of a shop was pressed: the page refused
C21_Witness ==
  /\ lastOp = "handleDeletePlayer"
  /\ C21_OwnsShop(pre, lastKey)
  /\ players = pre.players
  /\ alertMessage # Null

(***************************************************************************)
(* C22: after any sequence of store operations, ledger loads and merge     *)
(* commits, every shop whose owner is an individual names a player present *)
(* in the players collection, and every shop whose owner is a group names  *)
(* a group (by id) present in the groups collection.  The ign is compared  *)
(* in any case, as the key of a player is.                                 *)
(***************************************************************************)
C22_OwnerPresent(st, shop) ==
  /\ shop.owner.type = "individual" =>
       /\ shop.owner.player # <<>>
       /\ \E i \in 1..Len(st.players) :
            ToLowerCase(st.players[i].ign) = ToLowerCase(shop.owner.player[1].ign)
  /\ shop.owner.type = "group" =>
       /\ shop.owner.group # <<>>
       /\ \E i \in 1..Len(st.groups) : st.groups[i].id = shop.owner.group[1].id

C22_Consistent(st) == \A i \in 1..Len(st.shops) : C22_OwnerPresent(st, st.shops[i])

C22_ReferentialConsistency == C22_Consistent(Snapshot)

\* the part that holds: the shop editor, the delete button of a group and the
\* custom item manager keep the owners present
C22_EditorsKeepOwners ==
  (lastOp \in {"handleSubmit", "handleDeleteGroup", "handleDelete"} /\ C22_Consistent(pre))
  => C22_Consistent(Snapshot)

\* the shop editor gave a shop to a group and the delete button of the group
\* was refused
C22_Witness ==
  /\ lastOp = "handleDeleteGroup"
  /\ GroupShopCount(pre, lastKey) > 0
  /\ groups = pre.groups
  /\ C22_Consistent(Snapshot)

(***************************************************************************)
(* C26: every group saved from the group form (GroupForm.handleSubmit ->   *)
(* addGroup / updateGroup), after any sequence of handleAddMember,         *)
(* handleCreateAndAddPlayer, handleRemoveMember and set-leader actions     *)
(* starting from a group that satisfies it, has a leader that is either    *)
(* unset or one of its members.                                            *)
(***************************************************************************)
C26_LeaderIsMember(g) ==
  g.leader = <<>> \/ \E k \in 1..Len(g.members) : g.members[k] = g.leader[1]

\* the form, while open, and every group of the store
C26_LeaderAmongMembers ==
  /\ groupForm # <<>> => C26_LeaderIsMember(Form)
  /\ \A i \in 1..Len(groups) : C26_LeaderIsMember(groups[i])

\* a group was saved from the form with one member, who leads it and is not
\* the leader of the demo group
C26_Witness ==
  /\ lastOp = "handleSubmit"
  /\ groupForm = <<>>
  /\ \E i \in 1..Len(groups) :
       /\ groups[i].name = "saved"
       /\ Len(groups[i].members) = 1
       /\ groups[i].leader = <<groups[i].members[1]>>
       /\ groups[i].leader # <<DemoAlex>>

(***************************************************************************)
(* C27: deleteCustomItem(id) removes only the custom item with that id:    *)
(* the shops collection, and every trade whose input or output itemId      *)
(* equals id, is left unchanged (the trade keeps the dangling id), as are  *)
(* players and groups.                                                     *)
(***************************************************************************)
\* the trades of a store in the item id, with the index of their shop
C27_TradesIn(st, id) ==
  UNION {{<<i, st.shops[i].trades[k]>> :
            k \in {n \in 1..Len(st.shops[i].trades) :
                     \/ st.shops[i].trades[n].input.itemId = id
                     \/ st.shops[i].trades[n].output.itemId = id}} :
         i \in 1..Len(st.shops)}

C27_Confirmed == lastOp = "handleDelete" /\ hasUnsavedChanges /\ customItems # pre.customItems

====
